---------------------------- MODULE Spec2Model ----------------------------
(***************************************************************************)
(* A model of distilt (src/distilt.js): the planning of the export map,    *)
(* the synthesis of the published manifest, and the production and         *)
(* development compile passes.                                             *)
(*                                                                         *)
(* Strings that the code takes apart are sequences of tokens: a path is    *)
(* its pieces between dots, with a leading "./" as a token of its own, so  *)
(* "./pkg.esnext.js" is <<"./", "pkg", "esnext", "js">>.  Template strings *)
(* concatenate, regular expressions look at the last tokens.               *)
(***************************************************************************)
EXTENDS Integers, Sequences, FiniteSets, TLC

VARIABLES
    type,                 \* manifest.type || 'module'
    tsconfig,             \* paths.tsconfig was found
    targets,              \* targets[kind]: the kind's language level is set
    declared,             \* Object.entries(publishManifest.exports), before planning
    envFiles,             \* source files whose module graph imports 'distilt/env'
    exports,              \* publishManifest.exports
    legacy,               \* publishManifest's top-level main, module, ...
    entryPoints,          \* the accepted entry points, in declaration order
    mainEntryPoint,
    needsDevelopmentBuild,
    pc,                   \* where generateMultiBundles is, or "failed": process.exit(1)
    calls,                \* the rollup() invocations issued so far
    finished,             \* indexes of calls whose write has completed
    typesTasks,           \* generateTypesBundle invocations issued
    warned,               \* <<call, warning>>: the warnings handed on to rollup's warn()
    dist,                 \* files in paths.dist
    warnings,             \* <<source file, warning>>: what rollup warns of when it compiles the file
    broken,               \* source files whose compilation raises an error
    surface,              \* the static exports of each source file's compiled entry chunk
    deps,                 \* manifest.dependencies, peerDependencies, bundledDependencies
    imports,              \* the bare specifiers the sources import
    naming,               \* manifest.globalName, manifest.amdName, and the
                          \* @distilt-global-name marker of each source file
    prepared,             \* how often prepare() has run
    declarations,         \* typesDirectoryPromise: "none", "running", "done", "failed"
    copied,               \* copyFiles(): "idle", "running", "done"
    typesDone,            \* indexes of typesTasks whose bundle is written
    failure,              \* the tasks that have rejected
    wrapping,             \* node calls between their bundle.write and their wrappers
    content,              \* what the module files in paths.dist contain
    steps,                \* the comparisons of the de-duplicate loop, in order
    resolved              \* <<kind, specifier, external, outcome>>: the external option's answer and the resolution

cfgVars ==
    <<type, tsconfig, targets, declared, envFiles, warnings, broken, surface, deps, imports,
      naming>>
planVars == <<exports, legacy, entryPoints, mainEntryPoint>>
runVars == <<needsDevelopmentBuild, calls, finished, typesTasks, dist>>
logVars == <<warned, resolved, steps>>
mainVars == <<prepared, declarations, copied, typesDone, failure, wrapping, content, logVars>>
vars == <<cfgVars, planVars, runVars, mainVars, pc>>

----------------------------------------------------------------------------
(* JavaScript values *)

UNDEF == <<"undefined">>
NULL == <<"null">>
EMPTY == <<>>                                   \* the empty string

Truthy(v) == v # UNDEF /\ v # NULL /\ v # EMPTY
Or(a, b) == IF Truthy(a) THEN a ELSE b          \* a || b
And(a, b) == IF Truthy(a) THEN b ELSE a         \* a && b
Last(s) == s[Len(s)]

Kinds == {"esnext", "module", "node", "browser", "script"}
Modes == {"production", "development"}
CondNames == {"default", "browser", "node", "script", "esnext", "module"}
FieldNames ==
    {"types", "esnext", "module", "browser", "script", "node.import", "node.require", "default"}
LegacyNames == {"main", "module", "esnext", "unpkg", "jsdelivr", "browser", "types"}

----------------------------------------------------------------------------
(* The inputs: a manifest's export map and target configuration *)

ManifestName == <<"@scope", "pkg">>             \* manifest.name, split at '/'

SrcOf ==
    [default |-> <<"./", "src/index", "ts">>,
     browser |-> <<"./", "src/browser", "tsx">>,
     node    |-> <<"./", "src/node", "mjs">>,
     script  |-> <<"./", "src/script", "js">>,
     esnext  |-> <<"./", "src/esnext", "ts">>,
     module  |-> <<"./", "src/module", "jsx">>]
WebSrc == <<"./", "src/web", "cjs">>
PackageJson == <<"./", "package", "json">>
StyleSheet == <<"./", "src/style", "css">>

NoConds == [c \in CondNames |-> UNDEF]
Shorthand(p) == [shorthand |-> TRUE, string |-> p, conds |-> NoConds]
\* an export value that is no object: a string, or null or undefined
IsNullish(value) == value.shorthand /\ value.string \in {UNDEF, NULL}
Conditional(cs) == [shorthand |-> FALSE, string |-> UNDEF, conds |-> cs]

Main == <<".">>
Web == <<"./", "web">>
PackageJsonKey == <<"./", "package", "json">>

\* every condition set over the six names: absent, null, a source file, and for
\* default and script also a file that is no source
AllConds ==
    [default : {UNDEF, NULL, SrcOf.default, StyleSheet},
     browser : {UNDEF, NULL, SrcOf.browser},
     node    : {UNDEF, NULL, SrcOf.node},
     script  : {UNDEF, NULL, SrcOf.script, StyleSheet},
     esnext  : {UNDEF, NULL, SrcOf.esnext},
     module  : {UNDEF, SrcOf.module}]

AllDeclared ==
    {Conditional(cs) : cs \in AllConds} \cup {Shorthand(SrcOf.default), Shorthand(StyleSheet)}

----------------------------------------------------------------------------
(* generateMultiBundles: entry resolution and manifest synthesis *)

SourceExts == {"mjs", "cjs", "js", "jsx", "ts", "tsx"}

\* /\.([mc]js|[jt]sx?)$/.test(inputFile)
IsSourceFile(v) ==
    /\ Len(v) >= 2
    /\ Last(v) \in SourceExts
    /\ v[Len(v) - 1] # "./"

\* typeof conditions === 'string' ? { default: conditions } : conditions
Normalize(value) ==
    IF value.shorthand THEN [NoConds EXCEPT !["default"] = value.string] ELSE value.conds

\* Object.values(conditions): the values of the declared keys
DeclaredValues(conditions) == {conditions[c] : c \in {c \in CondNames : conditions[c] # UNDEF}}

\* an entry filter without the extension test
Accepted_AnyFile(conditions) ==
    Truthy(Or(Or(conditions.default, conditions.browser), conditions.node))

Accepted(conditions) ==
    /\ Truthy(Or(Or(conditions.default, conditions.browser), conditions.node))
    /\ \A inputFile \in DeclaredValues(conditions) : inputFile = NULL \/ IsSourceFile(inputFile)

\* entryPoint === '.' ? './' + manifest.name.split('/').pop() : entryPoint
OutputFile(entryPoint) ==
    IF entryPoint = Main THEN <<"./", Last(ManifestName)>> ELSE entryPoint

\* outputFile.slice(2)
Slice2(p) == IF Len(p) >= 1 /\ p[1] = "./" THEN Tail(p) ELSE p

CjsExt == IF type = "commonjs" THEN <<"js">> ELSE <<"cjs">>

EmptyBlock == [f \in FieldNames |-> UNDEF]

SynthFields(conditions, outputFile) ==
    [types |-> IF tsconfig THEN outputFile \o <<"d", "ts">> ELSE UNDEF,
     esnext |->
        IF targets.esnext /\ conditions.esnext # NULL
        THEN outputFile \o <<"esnext", "js">> ELSE UNDEF,
     module |->
        IF targets.module
        THEN outputFile \o (IF type = "commonjs" THEN <<"esm">> ELSE <<>>) \o <<"js">>
        ELSE UNDEF,
     browser |->
        IF targets.browser /\ conditions.browser # NULL
        THEN And(Or(conditions.browser, conditions.default), outputFile \o <<"browser", "js">>)
        ELSE UNDEF,
     script |->
        IF targets.script /\ conditions.script # NULL
        THEN And(Or(Or(conditions.script, conditions.browser), conditions.default),
                 outputFile \o <<"global", "js">>)
        ELSE UNDEF,
     nodeImport |->
        IF targets.node /\ conditions.node # NULL
        THEN And(Or(conditions.node, conditions.default), outputFile \o <<"mjs">>)
        ELSE UNDEF,
     nodeRequire |->
        IF targets.node /\ conditions.node # NULL
        THEN And(Or(conditions.node, conditions.default), outputFile \o CjsExt)
        ELSE UNDEF]

\* node?.require, node?.import: node itself may be null or undefined
OptField(v) == IF Truthy(v) THEN v ELSE UNDEF

\* a default that prefers the node path to the module path
DefaultField_NodeFirst(s) ==
    Or(Or(Or(IF type = "commonjs" THEN OptField(s.nodeRequire) ELSE OptField(s.nodeImport),
             s.module),
          s.esnext),
       s.script)

\* a default without the script fallback
DefaultField_NoScript(s) ==
    Or(Or(s.module,
          IF type = "commonjs" THEN OptField(s.nodeRequire) ELSE OptField(s.nodeImport)),
       s.esnext)

DefaultField(s) ==
    Or(Or(Or(s.module,
             IF type = "commonjs" THEN OptField(s.nodeRequire) ELSE OptField(s.nodeImport)),
          s.esnext),
       s.script)

SynthBlock(conditions, outputFile) ==
    LET s == SynthFields(conditions, outputFile) IN
    [f \in FieldNames |->
        CASE f = "types" -> s.types
          [] f = "esnext" -> s.esnext
          [] f = "module" -> s.module
          [] f = "browser" -> s.browser
          [] f = "script" -> s.script
          [] f = "node.import" -> s.nodeImport
          [] f = "node.require" -> s.nodeRequire
          [] f = "default" -> DefaultField(s)]

Raw(value) == [synth |-> FALSE, raw |-> value, block |-> EmptyBlock,
               hasDev |-> FALSE, development |-> EmptyBlock]
Synth(value, block) == [synth |-> TRUE, raw |-> value, block |-> block,
                        hasDev |-> FALSE, development |-> EmptyBlock]

EntryPlan(d) ==
    [entryPoint |-> d.entryPoint,
     outputFile |-> Slice2(OutputFile(d.entryPoint)),
     conditions |-> Normalize(d.value)]

\* .map(...).filter(Boolean)
RECURSIVE PlanEntries(_)
PlanEntries(ds) ==
    IF ds = <<>> THEN <<>>
    ELSE IF Accepted(Normalize(Head(ds).value))
         THEN <<EntryPlan(Head(ds))>> \o PlanEntries(Tail(ds))
         ELSE PlanEntries(Tail(ds))

PlanExports ==
    [e \in {declared[i].entryPoint : i \in DOMAIN declared} |->
        LET d == CHOOSE d \in {declared[i] : i \in DOMAIN declared} : d.entryPoint = e IN
        IF Accepted(Normalize(d.value))
        THEN Synth(d.value, SynthBlock(Normalize(d.value), OutputFile(e)))
        ELSE Raw(d.value)]

DeclaredLegacy == [f \in LegacyNames |-> <<"./", "declared", f>>]

\* if (publishManifest.exports['.']) Object.assign(publishManifest, {...}): the value
\* under '.' is the synthesized block, or the declared value of a rejected entry
PlanLegacy(exp) ==
    IF Main \notin DOMAIN exp THEN legacy
    ELSE IF exp[Main].synth
    THEN LET b == exp[Main].block IN
         [main |-> Or(OptField(b["node.require"]), b["module"]),
          module |-> b["module"],
          esnext |-> b["esnext"],
          unpkg |-> b["script"],
          jsdelivr |-> b["script"],
          browser |-> b["browser"],
          types |-> b["types"]]
    ELSE IF exp[Main].raw.shorthand
    THEN IF Truthy(exp[Main].raw.string) THEN [f \in LegacyNames |-> UNDEF] ELSE legacy
    ELSE LET c == exp[Main].raw.conds IN
         [main |-> c.module,
          module |-> c.module,
          esnext |-> c.esnext,
          unpkg |-> c.script,
          jsdelivr |-> c.script,
          browser |-> c.browser,
          types |-> UNDEF]

\* `conditions.default` of a value that is neither a string nor an object: TypeError
PlanThrows == \E i \in DOMAIN declared : IsNullish(declared[i].value)

\* the TypeError rejects generateMultiBundles before any entry point is returned
PlanFails ==
    /\ pc = "plan"
    /\ PlanThrows
    /\ failure' = failure \cup {<<"plan">>}
    /\ pc' = "threw"
    /\ UNCHANGED <<cfgVars, planVars, runVars, prepared, declarations, copied, typesDone,
                   wrapping, content, logVars>>

Plan ==
    /\ pc = "plan"
    /\ ~PlanThrows
    /\ exports' = PlanExports
    /\ entryPoints' = PlanEntries(declared)
    /\ mainEntryPoint' =
          IF \E i \in DOMAIN declared :
                declared[i].entryPoint = Main /\ Accepted(Normalize(declared[i].value))
          THEN Slice2(OutputFile(Main)) ELSE UNDEF
    /\ legacy' = PlanLegacy(exports')
    /\ pc' = "planned"
    /\ UNCHANGED <<cfgVars, runVars, mainVars>>


----------------------------------------------------------------------------
(* generatedBundles(mode): the five compile tasks of one pass *)

Suffix(mode) == IF mode = "development" THEN <<"dev">> ELSE <<>>

EsnextSource(c) == Or(Or(c.default, c.browser), c.node)
ModuleSource(c) == Or(Or(c.default, c.browser), c.node)
NodeSource(c) == Or(c.node, c.default)
\* a browser build that falls back to the node file
BrowserSource_NodeFallback(c) == Or(Or(c.browser, c.default), c.node)
BrowserSource(c) == Or(c.browser, c.default)
ScriptSource(c) == Or(Or(c.script, c.browser), c.default)

SourceFor(kind, c) ==
    CASE kind = "esnext" -> EsnextSource(c)
      [] kind = "module" -> ModuleSource(c)
      [] kind = "node" -> NodeSource(c)
      [] kind = "browser" -> BrowserSource(c)
      [] kind = "script" -> ScriptSource(c)

\* the script task without its conditions.script !== null filter
NotSuppressed_ScriptIgnored(kind, c) ==
    CASE kind = "esnext" -> c.esnext # NULL
      [] kind = "module" -> TRUE
      [] kind = "node" -> c.node # NULL
      [] kind = "browser" -> c.browser # NULL
      [] kind = "script" -> TRUE

\* the .filter(({ conditions }) => conditions.<kind> !== null) of each task
NotSuppressed(kind, c) ==
    CASE kind = "esnext" -> c.esnext # NULL
      [] kind = "module" -> TRUE
      [] kind = "node" -> c.node # NULL
      [] kind = "browser" -> c.browser # NULL
      [] kind = "script" -> c.script # NULL

\* entryPoints.filter(...).map(...).filter(([_, source]) => source)
RECURSIVE Inputs(_, _)
Inputs(kind, eps) ==
    IF eps = <<>> THEN <<>>
    ELSE LET ep == Head(eps) IN
         IF NotSuppressed(kind, ep.conditions) /\ Truthy(SourceFor(kind, ep.conditions))
         THEN <<ep>> \o Inputs(kind, Tail(eps))
         ELSE Inputs(kind, Tail(eps))

\* Object.fromEntries(inputs): a later entry of the same name replaces an earlier one
FromEntries(kind, eps) ==
    [name \in {eps[i].outputFile : i \in DOMAIN eps} |->
        LET last == CHOOSE i \in DOMAIN eps :
                       /\ eps[i].outputFile = name
                       /\ \A j \in DOMAIN eps : eps[j].outputFile = name => j <= i
        IN SourceFor(kind, eps[last].conditions)]

\* a batch task without its `if (!targets.<kind>) return`
BatchCalls_NoTargetGuard(mode, kind) ==
    LET eps == Inputs(kind, entryPoints) IN
    IF eps = <<>> THEN <<>>
    ELSE <<[mode |-> mode, kind |-> kind, input |-> FromEntries(kind, eps), file |-> UNDEF,
            name |-> UNDEF]>>

\* one rollup({ input: {...} }) for a batched kind, none when it has no inputs
BatchCalls(mode, kind) ==
    LET eps == Inputs(kind, entryPoints) IN
    IF ~targets[kind] \/ eps = <<>> THEN <<>>
    ELSE <<[mode |-> mode, kind |-> kind, input |-> FromEntries(kind, eps), file |-> UNDEF,
            name |-> UNDEF]>>

\* rollup's makeLegalIdentifier on a name given as its runs of identifier characters:
\* every other character becomes '_'
RECURSIVE MakeLegalIdentifier(_)
MakeLegalIdentifier(runs) ==
    IF Len(runs) <= 1 THEN runs
    ELSE <<Head(runs), "_">> \o MakeLegalIdentifier(Tail(runs))

\* the scope of a package name without its '@'
ScopeOf == [s \in {"@scope"} |-> "scope"]

\* makeGlobalName(name): @scope/package -> scope.package, package -> package; the
\* name is given split at '/', an unscoped part as its runs of identifier characters
MakeGlobalName(name) ==
    IF name[1] \in DOMAIN ScopeOf
    THEN <<ScopeOf[name[1]], ".">> \o MakeLegalIdentifier(Tail(name))
    ELSE MakeLegalIdentifier(name)

\* manifest.globalName || manifest.amdName || makeGlobalName(manifest.name)
GlobalName == Or(Or(naming.globalName, naming.amdName), MakeGlobalName(ManifestName))

\* content.match(/@distilt-global-name\s+(\S+)/)?.[1] ||
\*   (mainEntryPoint === outputFile ? globalName : globalName + '_' + makeGlobalName(outputFile))
ScriptName(outputFile, inputFile) ==
    Or(naming.marker[inputFile],
       IF mainEntryPoint = outputFile THEN GlobalName
       ELSE GlobalName \o <<"_">> \o MakeGlobalName(outputFile))

\* inputs.map(async ({ outputFile, conditions }) => rollup({ input: inputFile }) ...)
RECURSIVE ScriptCallsOf(_, _)
ScriptCallsOf(mode, eps) ==
    IF eps = <<>> THEN <<>>
    ELSE LET ep == Head(eps) IN
         <<[mode |-> mode, kind |-> "script",
            input |-> [name \in {ep.outputFile} |-> ScriptSource(ep.conditions)],
            file |-> ep.outputFile \o <<"global">> \o Suffix(mode) \o <<"js">>,
            name |-> ScriptName(ep.outputFile, ScriptSource(ep.conditions))]>>
         \o ScriptCallsOf(mode, Tail(eps))

\* the script entry points compiled as one batch, like the other kinds
ScriptCalls_Batched(mode) == BatchCalls(mode, "script")

ScriptCalls(mode) ==
    IF ~targets.script THEN <<>> ELSE ScriptCallsOf(mode, Inputs("script", entryPoints))

PassCalls(mode) ==
    BatchCalls(mode, "esnext") \o BatchCalls(mode, "module") \o BatchCalls(mode, "node")
        \o BatchCalls(mode, "browser") \o ScriptCalls(mode)

\* the entry files bundle.write() emits, each with its source map, and for node the
\* esm wrappers written with fs.writeFile
EntryFileName(call, name) ==
    CASE call.kind = "esnext" -> name \o <<"esnext">> \o Suffix(call.mode) \o <<"js">>
      [] call.kind = "module" ->
            name \o (IF type = "commonjs" THEN <<"esm">> ELSE <<>>) \o Suffix(call.mode) \o <<"js">>
      [] call.kind = "node" -> name \o Suffix(call.mode) \o CjsExt
      [] call.kind = "browser" -> name \o <<"browser">> \o Suffix(call.mode) \o <<"js">>
      [] call.kind = "script" -> call.file

WrapperFileName(call, name) == name \o Suffix(call.mode) \o <<"mjs">>

\* bundle.write(): the entry files, each with its source map
Written(call) ==
    LET files == {EntryFileName(call, name) : name \in DOMAIN call.input} IN
    files \cup {f \o <<"map">> : f \in files}

\* a node task that writes no wrapper
Wrappers_None(call) == {}

\* output.filter((chunk) => chunk.isEntry).map(... fs.writeFile(`${name}${suffix}.mjs`))
Wrappers(call) == {WrapperFileName(call, name) : name \in DOMAIN call.input}

Sources(call) == {call.input[name] : name \in DOMAIN call.input}

\* warning.source?.startsWith('node:')
StartsWithNode(source) == source # UNDEF /\ Len(source) >= 1 /\ source[1] = "node:"

\* only the script task promotes an unresolved node: import
OnWarn_ScriptOnly(kind, warning) ==
    IF warning.code = "CIRCULAR_DEPENDENCY" THEN "ignore"
    ELSE IF warning.code = "UNRESOLVED_IMPORT" /\ StartsWithNode(warning.source)
         THEN (IF kind = "script" THEN "throw" ELSE "ignore")
         ELSE "warn"

\* onwarn(warning, warn) of each task: "ignore" returns, "warn" hands the warning
\* on to rollup's default handler, "throw" raises
OnWarn(kind, warning) ==
    IF kind \in {"esnext", "module", "node"}
    THEN IF \/ warning.code = "CIRCULAR_DEPENDENCY"
            \/ (warning.code = "UNRESOLVED_IMPORT" /\ StartsWithNode(warning.source))
         THEN "ignore" ELSE "warn"
    ELSE IF warning.code = "CIRCULAR_DEPENDENCY" THEN "ignore"
         ELSE IF warning.code = "UNRESOLVED_IMPORT" /\ StartsWithNode(warning.source)
              THEN "throw" ELSE "warn"

CallWarnings(call) == {w[2] : w \in {w \in warnings : w[1] \in Sources(call)}}

\* the rollup() promise of a call rejects: a source does not compile, or onwarn throws
CallRejects(call) ==
    \/ Sources(call) \cap broken # {}
    \/ \E w \in CallWarnings(call) : OnWarn(call.kind, w) = "throw"

\* source.startsWith(external + '/'), names and specifiers split at '/'
IsSubpathOf(source, name) ==
    Len(source) > Len(name) /\ SubSeq(source, 1, Len(name)) = name

Bundled == deps.bundledDependencies

\* dependencies.filter((d) => !bundledDependencies.includes(d)), then push(manifest.name)
ExternalNames ==
    ((deps.dependencies \cup deps.peerDependencies) \ Bundled) \cup {ManifestName}

\* Object.keys(manifest.peerDependencies).filter((d) => !bundledDependencies.includes(d))
ScriptExternalNames == deps.peerDependencies \ Bundled

\* a script task that is handed the list of the other tasks
External_OneList(kind, source) ==
    source \in ExternalNames \/ \E name \in ExternalNames : IsSubpathOf(source, name)

\* the external option of rollup(): list.includes(source) || list.some(startsWith)
External(kind, source) ==
    LET list == IF kind = "script" THEN ScriptExternalNames ELSE ExternalNames IN
    source \in list \/ \E name \in list : IsSubpathOf(source, name)

Helpers == <<"@swc", "helpers">>

\* source === '@swc/helpers' || source.startsWith('@swc/helpers/')
IsHelpers(source) == source = Helpers \/ IsSubpathOf(source, Helpers)

\* the format handed to swc() by each task
Format(kind) ==
    CASE kind = "node" -> "cjs"
      [] kind = "script" -> "iife"
      [] OTHER -> "es"

\* a resolveId that inlines the helpers in every format
SwcResolveId_AlwaysInlined(kind, source) == IF IsHelpers(source) THEN "inlined" ELSE "none"

\* swc.resolveId(source): the helpers are resolved from distilt's own location and
\* inlined for iife; for es and cjs they are marked external, and "added" says that
\* manifest.dependencies has got an entry for them
SwcResolveId(kind, source) ==
    IF IsHelpers(source)
    THEN IF Format(kind) = "iife" THEN "inlined"
         ELSE IF Helpers \in deps.dependencies THEN "external" ELSE "added"
    ELSE "none"

\* how rollup resolves a bare import: the external option first, then the resolveId
\* hooks in plugin order (nodeResolve before swc), and an import no plugin resolves
\* is left external with an UNRESOLVED_IMPORT warning
Resolve(kind, source) ==
    IF External(kind, source) THEN "external"
    ELSE IF \E package \in deps.installed : source = package \/ IsSubpathOf(source, package)
    THEN "inlined"
    ELSE IF SwcResolveId(kind, source) # "none" THEN SwcResolveId(kind, source)
    ELSE "unresolved"

\* what the compiler emits for an entry chunk: its text (equal tags, equal text) and
\* its static exports
Compiled(call, src) ==
    [code |-> <<"chunk", src,
                IF call.kind \in {"esnext", "module"} /\ surface[src].portable
                THEN "es" ELSE call.kind,
                IF src \in envFiles THEN call.mode ELSE "production">>,
     default |-> surface[src].default,
     named |-> surface[src].named,
     stars |-> surface[src].stars,
     body |-> surface[src].body]

Emitted(call) ==
    [f \in {EntryFileName(call, name) : name \in DOMAIN call.input} |->
        LET name == CHOOSE name \in DOMAIN call.input : EntryFileName(call, name) = f
        IN Compiled(call, call.input[name])]

\* g's files replace f's
Override(f, g) ==
    [x \in DOMAIN f \cup DOMAIN g |-> IF x \in DOMAIN g THEN g[x] ELSE f[x]]

\* swc.transform: needsDevelopmentBuild = /from\s+(["'])distilt\/env\1/.test(code)
ImportsEnv(call) == \E name \in DOMAIN call.input : call.input[name] \in envFiles

RECURSIVE TypesTasks(_)
TypesTasks(eps) ==
    IF eps = <<>> THEN <<>>
    ELSE LET ep == Head(eps) IN
         <<[inputFile |-> Or(Or(ep.conditions.default, ep.conditions.browser), ep.conditions.node),
            dtsFile |-> ep.outputFile \o <<"d", "ts">>]>>
         \o TypesTasks(Tail(eps))

\* generateTypesBundle without a tsconfig: typesDirectoryPromise is undefined, so
\* the await resumes in the same tick and path.dirname(paths.tsconfig) throws
TypesBundleThrows == ~tsconfig /\ entryPoints # <<>>

\* await Promise.all([...]) of generateMultiBundles, up to the first await of every
\* task: the production calls and the type bundles are issued.  A type bundle that
\* throws rejects the Promise.all and main().catch exits the process before any
\* rollup call has completed.
StartProduction ==
    /\ pc = "planned"
    /\ calls' = PassCalls("production")
    /\ typesTasks' = TypesTasks(entryPoints)
    /\ pc' = IF TypesBundleThrows THEN "failed" ELSE "production"
    /\ UNCHANGED <<cfgVars, planVars, needsDevelopmentBuild, finished, dist, mainVars>>

\* chunk.exports of an entry chunk: its names, a wildcard re-export as '*' + specifier
ChunkExports(c) ==
    (IF c.default THEN {<<"default">>} ELSE {})
        \cup {<<n>> : n \in c.named} \cup {<<"*">> \o sp : sp \in c.stars}

\* a wrapper without the default export it adds for a chunk that has none
WrapperOf_NoOwnDefault(cjsFile, chunkExports) ==
    LET namedExports == {ex \in chunkExports : ex[1] # "*"} IN
    [code |-> <<"wrapper", cjsFile>>,
     default |-> <<"default">> \in namedExports,
     defaultIs |-> IF <<"default">> \notin chunkExports THEN "none" ELSE "default",
     named |-> {ex[1] : ex \in namedExports \ {<<"default">>}},
     stars |-> {Tail(ex) : ex \in {ex \in chunkExports : ex[1] = "*"}},
     body |-> FALSE]

\* the wrapper text assembled from chunk.exports: an own default when the chunk has
\* none, one `export * from` per name starting with '*', the other names re-exported
WrapperOf(cjsFile, chunkExports) ==
    LET namedExports == {ex \in chunkExports : ex[1] # "*"} IN
    [code |-> <<"wrapper", cjsFile>>,
     default |-> (<<"default">> \notin chunkExports) \/ (<<"default">> \in namedExports),
     defaultIs |-> IF <<"default">> \notin chunkExports THEN "module.exports" ELSE "default",
     named |-> {ex[1] : ex \in namedExports \ {<<"default">>}},
     stars |-> {Tail(ex) : ex \in {ex \in chunkExports : ex[1] = "*"}},
     body |-> FALSE]

WrapperFiles(call) ==
    [f \in Wrappers(call) |->
        LET name == CHOOSE name \in DOMAIN call.input : WrapperFileName(call, name) = f
        IN WrapperOf(EntryFileName(call, name),
                     ChunkExports(Compiled(call, call.input[name])))]

\* what the external option answered for the bare imports of a call's sources
Resolutions(i) ==
    {<<calls[i].kind, sp, External(calls[i].kind, sp), Resolve(calls[i].kind, sp)>> : sp \in imports}

\* the warnings of a call that reach rollup's default handler
Warned(i) == {<<i, w>> : w \in {w \in CallWarnings(calls[i]) : OnWarn(calls[i].kind, w) = "warn"}}

\* a transform that assigns the flag without the `if (!needsDevelopmentBuild)` guard
FinishCall_Unguarded(i) ==
    /\ pc \in {"production", "development"}
    /\ i \in DOMAIN calls /\ i \notin finished /\ i \notin wrapping
    /\ ~CallRejects(calls[i])
    /\ needsDevelopmentBuild' = ImportsEnv(calls[i])
    /\ dist' = dist \cup Written(calls[i])
    /\ content' = Override(content, Emitted(calls[i]))
    /\ resolved' = resolved \cup Resolutions(i)
    /\ warned' = warned \cup Warned(i)
    /\ steps' = steps
    /\ IF calls[i].kind = "node"
       THEN wrapping' = wrapping \cup {i} /\ finished' = finished
       ELSE finished' = finished \cup {i} /\ wrapping' = wrapping
    /\ UNCHANGED <<cfgVars, planVars, calls, typesTasks, pc,
                   prepared, declarations, copied, typesDone, failure>>

\* one rollup call transforms its modules and writes its files; every kind but node
\* is then done
FinishCall(i) ==
    /\ pc \in {"production", "development"}
    /\ i \in DOMAIN calls /\ i \notin finished /\ i \notin wrapping
    /\ ~CallRejects(calls[i])
    /\ needsDevelopmentBuild' = (needsDevelopmentBuild \/ ImportsEnv(calls[i]))
    /\ dist' = dist \cup Written(calls[i])
    /\ content' = Override(content, Emitted(calls[i]))
    /\ resolved' = resolved \cup Resolutions(i)
    /\ warned' = warned \cup Warned(i)
    /\ steps' = steps
    /\ IF calls[i].kind = "node"
       THEN wrapping' = wrapping \cup {i} /\ finished' = finished
       ELSE finished' = finished \cup {i} /\ wrapping' = wrapping
    /\ UNCHANGED <<cfgVars, planVars, calls, typesTasks, pc,
                   prepared, declarations, copied, typesDone, failure>>

\* the node task after `await bundle.write()` and `bundle.close()`: one esm wrapper
\* per entry chunk, then the task is done
WriteWrappers(i) ==
    /\ pc \in {"production", "development"}
    /\ i \in wrapping
    /\ dist' = dist \cup Wrappers(calls[i])
    /\ content' = Override(content, WrapperFiles(calls[i]))
    /\ wrapping' = wrapping \ {i}
    /\ finished' = finished \cup {i}
    /\ UNCHANGED <<cfgVars, planVars, needsDevelopmentBuild, calls, typesTasks, pc,
                   prepared, declarations, copied, typesDone, failure, logVars>>

\* a task that catches the error of its build and goes on
RejectCall_Swallowed(i) ==
    /\ pc \in {"production", "development"}
    /\ i \in DOMAIN calls /\ i \notin finished /\ i \notin wrapping
    /\ CallRejects(calls[i])
    /\ finished' = finished \cup {i}
    /\ UNCHANGED <<cfgVars, planVars, needsDevelopmentBuild, calls, typesTasks, dist, pc,
                   mainVars>>

\* a rollup call whose build raises: the promise of its task rejects, and with it
\* the Promise.all of the pass
RejectCall(i) ==
    /\ pc \in {"production", "development"}
    /\ i \in DOMAIN calls /\ i \notin finished /\ i \notin wrapping
    /\ <<"call", i>> \notin failure
    /\ CallRejects(calls[i])
    /\ failure' = failure \cup {<<"call", i>>}
    /\ UNCHANGED <<cfgVars, planVars, runVars, pc,
                   prepared, declarations, copied, typesDone, wrapping, content, logVars>>

CompileRejected == \E i \in DOMAIN calls : <<"call", i>> \in failure

\* a replace that knows .js only: /\.js$/
DevReplace_JsOnly(p) ==
    IF Len(p) >= 2 /\ Last(p) = "js" /\ p[Len(p) - 1] # "./"
    THEN SubSeq(p, 1, Len(p) - 1) \o <<"dev", Last(p)>>
    ELSE p

\* value?.replace(/\.([cm]?js)$/, '.dev.$1')
DevReplace(p) ==
    IF Len(p) >= 2 /\ Last(p) \in {"js", "cjs", "mjs"} /\ p[Len(p) - 1] # "./"
    THEN SubSeq(p, 1, Len(p) - 1) \o <<"dev", Last(p)>>
    ELSE p

DevOpt(v) == IF v \in {UNDEF, NULL} THEN UNDEF ELSE DevReplace(v)

DevelopmentBlock(b) ==
    [f \in FieldNames |->
        CASE f = "types" -> UNDEF
          [] f \in {"node.import", "node.require"} ->
                IF Truthy(b[f]) THEN DevReplace(b[f]) ELSE b[f]
          [] OTHER -> DevOpt(b[f])]

WithDevelopment(exp) ==
    [e \in DOMAIN exp |->
        IF \E i \in DOMAIN entryPoints : entryPoints[i].entryPoint = e
        THEN [exp[e] EXCEPT !.hasDev = TRUE, !.development = DevelopmentBlock(exp[e].block)]
        ELSE exp[e]]

PassFinished == finished = DOMAIN calls

\* the passes not awaited: de-duplication starts while calls are still writing
AfterProduction_Unawaited ==
    /\ pc = "production"
    /\ pc' = "dedup"
    /\ UNCHANGED <<cfgVars, planVars, runVars, mainVars>>

\* after await generatedBundles('production'): the development blocks and the
\* development pass, when a transformed module imported 'distilt/env'
AfterProduction ==
    /\ pc = "production"
    /\ PassFinished
    /\ ~CompileRejected
    /\ IF needsDevelopmentBuild
       THEN /\ exports' = WithDevelopment(exports)
            /\ calls' = calls \o PassCalls("development")
            /\ pc' = "development"
       ELSE /\ pc' = "dedup"
            /\ UNCHANGED <<exports, calls>>
    /\ UNCHANGED <<cfgVars, legacy, entryPoints, mainEntryPoint,
                   needsDevelopmentBuild, finished, typesTasks, dist, mainVars>>

AfterDevelopment ==
    /\ pc = "development"
    /\ PassFinished
    /\ ~CompileRejected
    /\ pc' = "dedup"
    /\ UNCHANGED <<cfgVars, planVars, runVars, mainVars>>

----------------------------------------------------------------------------
(* main(): preparation, declarations, copied files, type bundles *)

OldBuild == <<"old", "js">>                     \* what an earlier build left in paths.dist
TypesDir == <<".types">>                        \* path.resolve(paths.dist, '.types')
Readme == <<"README", "md">>
ManifestFile == <<"package", "json">>           \* path.resolve(paths.dist, 'package.json')
Tsc == <<"tsc">>                                \* in broken: tsc exits with an error
Dts == <<"dts">>                                \* in broken: the dts bundler raises

\* process.exit(1), or main() has returned
Ended == pc \in {"failed", "done"}

\* prepare() not awaited: the tasks start while the directory is still to be cleared
Prepare_Unawaited ==
    /\ pc = "prepare"
    /\ prepared' = prepared
    /\ dist' = dist
    /\ declarations' = IF tsconfig THEN "running" ELSE "none"
    /\ copied' = "running"
    /\ pc' = "plan"
    /\ UNCHANGED <<cfgVars, planVars, needsDevelopmentBuild, calls, finished, typesTasks,
                   typesDone, failure, wrapping, content, logVars>>

\* await prepare(); then typesDirectoryPromise and copyFiles() are started and
\* generateMultiBundles() is entered
Prepare ==
    /\ pc = "prepare"
    /\ prepared' = prepared + 1
    /\ dist' = {}
    /\ declarations' = IF tsconfig THEN "running" ELSE "none"
    /\ copied' = "running"
    /\ pc' = "plan"
    /\ UNCHANGED <<cfgVars, planVars, needsDevelopmentBuild, calls, finished, typesTasks,
                   typesDone, failure, wrapping, content, logVars>>

\* tsc has emitted the declarations into the types directory
DeclarationsDone ==
    /\ ~Ended /\ declarations = "running" /\ Tsc \notin broken
    /\ pc \notin {"plan", "planned"}
    /\ declarations' = "done"
    /\ dist' = dist \cup {TypesDir}
    /\ UNCHANGED <<cfgVars, planVars, needsDevelopmentBuild, calls, finished, typesTasks, pc,
                   prepared, copied, typesDone, failure, wrapping, content, logVars>>

\* execa('tsc', ...) rejects: typesDirectoryPromise is rejected
DeclarationsFail ==
    /\ ~Ended /\ declarations = "running" /\ Tsc \in broken
    /\ pc \notin {"plan", "planned"}
    /\ declarations' = "failed"
    /\ failure' = failure \cup {<<"declarations">>}
    /\ UNCHANGED <<cfgVars, planVars, runVars, pc,
                   prepared, copied, typesDone, wrapping, content, logVars>>

CopyFiles ==
    /\ ~Ended /\ copied = "running"
    /\ pc \notin {"plan", "planned"}
    /\ copied' = "done"
    /\ dist' = dist \cup {Readme}
    /\ UNCHANGED <<cfgVars, planVars, needsDevelopmentBuild, calls, finished, typesTasks, pc,
                   prepared, declarations, typesDone, failure, wrapping, content, logVars>>

\* generateTypesBundle after `await typesDirectoryPromise`: the .d.ts and its map
FinishTypes(t) ==
    /\ ~Ended /\ declarations = "done" /\ Dts \notin broken
    /\ t \in DOMAIN typesTasks /\ t \notin typesDone
    /\ typesDone' = typesDone \cup {t}
    /\ dist' = dist \cup {typesTasks[t].dtsFile, typesTasks[t].dtsFile \o <<"map">>}
    /\ UNCHANGED <<cfgVars, planVars, needsDevelopmentBuild, calls, finished, typesTasks, pc,
                   prepared, declarations, copied, failure, wrapping, content, logVars>>

\* the await rethrows the rejection of typesDirectoryPromise, or the dts bundler raises
RejectTypes(t) ==
    /\ ~Ended
    /\ declarations = "failed" \/ (declarations = "done" /\ Dts \in broken)
    /\ t \in DOMAIN typesTasks /\ t \notin typesDone /\ <<"types", t>> \notin failure
    /\ failure' = failure \cup {<<"types", t>>}
    /\ UNCHANGED <<cfgVars, planVars, runVars, pc,
                   prepared, declarations, copied, typesDone, wrapping, content, logVars>>

----------------------------------------------------------------------------
(* De-duplication: a file equal to its canonical twin becomes a facade of it *)

\* es-module-lexer's parse(): [1] the names the text exports itself, [2] whether the
\* text is import and export statements only
LexerExports(c) == (IF c.default THEN {"default"} ELSE {}) \cup c.named
LexerFacade(c) == ~c.body

\* createFacade(from, to, isCJS): the text written to `from`
FacadeOf(to, c, isCJS) ==
    IF isCJS
    THEN [code |-> <<"facade", to, "require">>, default |-> c.default, named |-> c.named,
          stars |-> c.stars, body |-> c.body]
    ELSE LET star == LexerFacade(c) \/ \E n \in LexerExports(c) : n # "default"
             def == "default" \in LexerExports(c)
         IN [code |-> <<"facade", to, IF star \/ def THEN "export" ELSE "import">>,
             default |-> def, named |-> {}, stars |-> IF star THEN {to} ELSE {},
             body |-> FALSE]

\* readFile(a) === readFile(b), for manifest paths of files in paths.dist
SameText(c, a, b) ==
    /\ Truthy(a) /\ Truthy(b)
    /\ Slice2(a) \in DOMAIN c /\ Slice2(b) \in DOMAIN c
    /\ c[Slice2(a)].code = c[Slice2(b)].code

\* a step that rewrites the canonical file into a facade of the duplicate
TryFacade_Swapped(c, from, to, isCJS) ==
    IF SameText(c, to, from)
    THEN [c EXCEPT ![Slice2(to)] = FacadeOf(Slice2(from), c[Slice2(from)], isCJS)]
    ELSE c

\* if (to && from && readFile(to) === readFile(from)) await createFacade(from, to, isCJS)
TryFacade(c, from, to, isCJS) ==
    IF SameText(c, to, from)
    THEN [c EXCEPT ![Slice2(from)] = FacadeOf(Slice2(to), c[Slice2(to)], isCJS)]
    ELSE c

\* the pairs one round of the loop looks at in turn, the file that may be rewritten
\* first: the development files against the production files, then esnext against
\* module
PairsOf(e) ==
    LET b == exports[e].block
        d == exports[e].development
    IN (IF needsDevelopmentBuild
        THEN <<[from |-> d.esnext, to |-> b.esnext, isCJS |-> FALSE],
               [from |-> d.module, to |-> b.module, isCJS |-> FALSE],
               [from |-> d.browser, to |-> b.browser, isCJS |-> FALSE],
               [from |-> d["node.require"], to |-> b["node.require"], isCJS |-> TRUE]>>
        ELSE <<>>)
       \o <<[from |-> b.esnext, to |-> b.module, isCJS |-> FALSE]>>

RECURSIVE ApplyPairs(_, _)
ApplyPairs(c, pairs) ==
    IF pairs = <<>> THEN c
    ELSE ApplyPairs(TryFacade(c, Head(pairs).from, Head(pairs).to, Head(pairs).isCJS),
                    Tail(pairs))

\* one round of the loop
DedupEntry(c, e) == ApplyPairs(c, PairsOf(e))

RECURSIVE AllPairs(_)
AllPairs(eps) == IF eps = <<>> THEN <<>> ELSE PairsOf(Head(eps).entryPoint) \o AllPairs(Tail(eps))

\* what each comparison read and what it changed: a pair is compared when both of its
\* paths are set
RECURSIVE Trail(_, _)
Trail(c, pairs) ==
    IF pairs = <<>> THEN <<>>
    ELSE LET p == Head(pairs)
             c2 == TryFacade(c, p.from, p.to, p.isCJS)
         IN (IF Truthy(p.to) /\ Truthy(p.from)
             THEN <<[from |-> Slice2(p.from), to |-> Slice2(p.to),
                     fromRead |-> IF Slice2(p.from) \in DOMAIN c THEN c[Slice2(p.from)].code ELSE UNDEF,
                     toRead |-> IF Slice2(p.to) \in DOMAIN c THEN c[Slice2(p.to)].code ELSE UNDEF,
                     rewritten |-> {f \in DOMAIN c : c2[f] # c[f]},
                     unlinked |-> IF SameText(c, p.to, p.from)
                                  THEN {Slice2(p.from) \o <<"map">>} ELSE {}]>>
             ELSE <<>>)
            \o Trail(c2, Tail(pairs))

RECURSIVE DedupAll(_, _)
DedupAll(c, eps) ==
    IF eps = <<>> THEN c ELSE DedupAll(DedupEntry(c, Head(eps).entryPoint), Tail(eps))

IsFacade(c) == c.code[1] = "facade"

\* a createFacade that leaves the source map of the file it rewrote
Dedup_KeepMaps ==
    /\ pc = "dedup"
    /\ content' = DedupAll(content, entryPoints)
    /\ steps' = Trail(content, AllPairs(entryPoints))
    /\ pc' = "deduped"
    /\ UNCHANGED <<cfgVars, planVars, runVars,
                   prepared, declarations, copied, typesDone, failure, wrapping,
                   warned, resolved>>

\* the de-duplicate loop; each createFacade unlinks the source map of the file it rewrote
Dedup ==
    /\ pc = "dedup"
    /\ content' = DedupAll(content, entryPoints)
    /\ steps' = Trail(content, AllPairs(entryPoints))
    /\ dist' = dist \ UNION {steps'[k].unlinked : k \in DOMAIN steps'}
    /\ pc' = "deduped"
    /\ UNCHANGED <<cfgVars, planVars, needsDevelopmentBuild, calls, finished, typesTasks,
                   prepared, declarations, copied, typesDone, failure, wrapping,
                   warned, resolved>>

----------------------------------------------------------------------------
(* The end of generateMultiBundles and of main() *)

\* a manifest write that waits for planning only
WriteManifest_Unordered ==
    /\ pc \in {"production", "development", "dedup", "deduped"}
    /\ dist' = dist \cup {ManifestFile}
    /\ pc' = "written"
    /\ UNCHANGED <<cfgVars, planVars, needsDevelopmentBuild, calls, finished, typesTasks,
                   mainVars>>

\* a manifest write after Promise.allSettled: it waits for the type bundles to settle,
\* not to succeed
WriteManifest_AllSettled ==
    /\ pc = "deduped"
    /\ typesDone \cup {t \in DOMAIN typesTasks : <<"types", t>> \in failure} = DOMAIN typesTasks
    /\ dist' = dist \cup {ManifestFile}
    /\ pc' = "written"
    /\ UNCHANGED <<cfgVars, planVars, needsDevelopmentBuild, calls, finished, typesTasks,
                   mainVars>>

\* after `await Promise.all([passes and dedup, type bundles])`
WriteManifest ==
    /\ pc = "deduped"
    /\ typesDone = DOMAIN typesTasks
    /\ dist' = dist \cup {ManifestFile}
    /\ pc' = "written"
    /\ UNCHANGED <<cfgVars, planVars, needsDevelopmentBuild, calls, finished, typesTasks,
                   mainVars>>

\* a main() that awaits the copied files only
Finish_BundlesUnawaited ==
    /\ pc \in {"production", "development", "dedup", "deduped", "written"}
    /\ copied = "done"
    /\ declarations # "running"
    /\ IF declarations = "failed"
       THEN pc' = "failed" /\ dist' = dist
       ELSE pc' = "done" /\ dist' = dist \ {TypesDir}
    /\ UNCHANGED <<cfgVars, planVars, needsDevelopmentBuild, calls, finished, typesTasks,
                   mainVars>>

\* main() after its Promise.all: the finally block awaits typesDirectoryPromise, which
\* rethrows a rejection, and removes the types directory; then `Bundled` is reported
Finish ==
    /\ pc = "written"
    /\ copied = "done"
    /\ declarations # "running"
    /\ IF declarations = "failed"
       THEN pc' = "failed" /\ dist' = dist
       ELSE pc' = "done" /\ dist' = dist \ {TypesDir}
    /\ UNCHANGED <<cfgVars, planVars, needsDevelopmentBuild, calls, finished, typesTasks,
                   mainVars>>

\* a rejection inside generateMultiBundles rejects main's Promise.all; the finally
\* block waits for typesDirectoryPromise and starts the removal of the types directory
\* without awaiting it, then main().catch reports and exits with 1: the directory is
\* gone or still there, as far as the removal got before the process ended
Exit ==
    /\ ~Ended
    /\ failure \ {<<"declarations">>} # {}
    /\ declarations # "running"
    /\ pc' = "failed"
    /\ dist' \in (IF declarations = "done" THEN {dist, dist \ {TypesDir}} ELSE {dist})
    /\ UNCHANGED <<cfgVars, planVars, needsDevelopmentBuild, calls, finished, typesTasks,
                   mainVars>>

----------------------------------------------------------------------------
(* Specifications *)

InitState ==
    /\ exports = [e \in {declared[i].entryPoint : i \in DOMAIN declared} |->
                    Raw((CHOOSE d \in {declared[i] : i \in DOMAIN declared} :
                            d.entryPoint = e).value)]
    /\ legacy = DeclaredLegacy
    /\ entryPoints = <<>>
    /\ mainEntryPoint = UNDEF
    /\ needsDevelopmentBuild = FALSE
    /\ pc = "prepare"
    /\ calls = <<>>
    /\ finished = {}
    /\ typesTasks = <<>>
    /\ dist = {OldBuild}
    /\ prepared = 0
    /\ declarations = "none"
    /\ copied = "idle"
    /\ typesDone = {}
    /\ failure = {}
    /\ wrapping = {}
    /\ content = <<>>
    /\ warned = {}
    /\ resolved = {}
    /\ steps = <<>>

AllSources == {SrcOf[c] : c \in CondNames} \cup {WebSrc}

\* an entry chunk with code of its own, a default export and one named export
PlainChunk == [default |-> TRUE, named |-> {"a"}, stars |-> {}, body |-> TRUE, portable |-> FALSE]

\* installed: the packages node resolution finds from the package's sources
NoDeps == [dependencies |-> {}, peerDependencies |-> {}, bundledDependencies |-> {},
           installed |-> {}]

\* no global name in the manifest, no marker in a source
NoNaming == [globalName |-> UNDEF, amdName |-> UNDEF, marker |-> [f \in AllSources |-> UNDEF]]

\* sources that compile without warnings, import no package and export alike
QuietSources ==
    /\ naming = NoNaming
    /\ warnings = {}
    /\ broken = {}
    /\ surface = [f \in AllSources |-> PlainChunk]
    /\ deps = NoDeps
    /\ imports = {}

\* publishManifest.exports = { ...manifest.exports, './package.json': './package.json' }
WithPackageJson(ds) == ds \o <<[entryPoint |-> PackageJsonKey, value |-> Shorthand(PackageJson)]>>

AllTargets == [esnext : BOOLEAN, module : BOOLEAN, node : BOOLEAN, browser : BOOLEAN, script : BOOLEAN]

\* planning over every condition set of one declared entry point
InitPlan ==
    /\ type \in {"module", "commonjs"}
    /\ tsconfig \in BOOLEAN
    /\ targets \in AllTargets
    /\ \E e \in {Main, Web}, v \in AllDeclared :
          declared = WithPackageJson(<<[entryPoint |-> e, value |-> v]>>)
    /\ envFiles = {}
    /\ QuietSources
    /\ InitState

NextPlan == Prepare \/ Plan \/ StartProduction

PlanSpec == InitPlan /\ [][NextPlan]_vars



\* bounds of the runs checked with both passes
MaxDisabled == 1          \* target kinds switched off at once
MaxExtra == 1             \* conditions an entry declares besides default

RunConds ==
    {cs \in [default : {UNDEF, SrcOf.default},
             browser : {UNDEF, NULL, SrcOf.browser},
             node    : {UNDEF, NULL, SrcOf.node},
             script  : {UNDEF, NULL, SrcOf.script},
             esnext  : {UNDEF, NULL, SrcOf.esnext},
             module  : {UNDEF}] :
        Cardinality({c \in CondNames \ {"default"} : cs[c] # UNDEF}) <= MaxExtra}

MainDeclared == {Conditional(cs) : cs \in RunConds} \cup {Shorthand(SrcOf.default)}

\* the second entry point: a plain source file, or a browser entry without script build
WebDeclared ==
    {Shorthand(WebSrc),
     Conditional([NoConds EXCEPT !["browser"] = WebSrc, !["script"] = NULL])}

EnvCandidates == {SrcOf.default, SrcOf.node, WebSrc}

Init ==
    /\ type \in {"module", "commonjs"}
    /\ tsconfig \in BOOLEAN
    /\ targets \in {t \in AllTargets : Cardinality({k \in Kinds : ~t[k]}) <= MaxDisabled}
    /\ \E m \in MainDeclared, w \in WebDeclared :
          declared = WithPackageJson(<<[entryPoint |-> Main, value |-> m],
                                       [entryPoint |-> Web, value |-> w]>>)
    /\ envFiles \in {{}} \cup {{f} : f \in EnvCandidates}
    /\ QuietSources
    /\ InitState

Next ==
    \/ Prepare
    \/ Plan
    \/ StartProduction
    \/ \E i \in DOMAIN calls : FinishCall(i)
    \/ \E i \in DOMAIN calls : WriteWrappers(i)
    \/ AfterProduction
    \/ AfterDevelopment

Spec == Init /\ [][Next]_vars

----------------------------------------------------------------------------
(* The whole of main(): runs with failing tasks (MainSpec), and complete builds    *)
(* over export surfaces, entry names and dependency lists (BuildSpec)              *)

EveryTarget == [k \in Kinds |-> TRUE]

TwoEntries ==
    WithPackageJson(<<[entryPoint |-> Main, value |-> Shorthand(SrcOf.default)],
                      [entryPoint |-> Web, value |-> Shorthand(WebSrc)]>>)

OneEntry == WithPackageJson(<<[entryPoint |-> Main, value |-> Shorthand(SrcOf.default)]>>)

\* a subpath without a value next to the main entry point
NullishEntries ==
    {WithPackageJson(<<[entryPoint |-> Main, value |-> Shorthand(SrcOf.default)],
                       [entryPoint |-> Web, value |-> Shorthand(v)]>>) : v \in {UNDEF, NULL}}

Circular == [code |-> "CIRCULAR_DEPENDENCY", source |-> UNDEF]
UnresolvedNode == [code |-> "UNRESOLVED_IMPORT", source |-> <<"node:", "fs">>]
UnresolvedPackage == [code |-> "UNRESOLVED_IMPORT", source |-> <<"lodash">>]
EmptyBundle == [code |-> "EMPTY_BUNDLE", source |-> UNDEF]
WarningMenu == {Circular, UnresolvedNode, UnresolvedPackage, EmptyBundle}

\* an entry chunk that compiles to the same text for esnext and for module
PortableChunk == [PlainChunk EXCEPT !.portable = TRUE]

PlainSources ==
    /\ surface = [f \in AllSources |-> PortableChunk] /\ deps = NoDeps /\ imports = {}
    /\ naming = NoNaming

InitMain ==
    /\ type = "module"
    /\ targets \in {EveryTarget} \cup {[EveryTarget EXCEPT ![k] = FALSE] : k \in {"script", "browser"}}
    /\ PlainSources
    /\ \/ \* tasks that raise
          /\ tsconfig \in BOOLEAN
          /\ declared \in {OneEntry, WithPackageJson(<<>>)}
          /\ envFiles \in {{}, {SrcOf.default}}
          /\ broken \in {{}, {SrcOf.default}, {Tsc}, {Dts}}
          /\ warnings = {}
       \/ \* an export without a value
          /\ tsconfig = TRUE
          /\ declared \in NullishEntries
          /\ envFiles = {}
          /\ broken \in {{}, {Tsc}}
          /\ warnings = {}
       \/ \* a source rollup warns about
          /\ tsconfig = TRUE
          /\ declared = OneEntry
          /\ envFiles \in {{}, {SrcOf.default}}
          /\ broken = {}
          /\ warnings \in {{<<SrcOf.default, w>>} : w \in WarningMenu}
    /\ InitState

NextRun ==
    \/ Prepare
    \/ Plan
    \/ StartProduction
    \/ \E i \in DOMAIN calls : FinishCall(i)
    \/ \E i \in DOMAIN calls : WriteWrappers(i)
    \/ AfterProduction
    \/ AfterDevelopment
    \/ DeclarationsDone
    \/ CopyFiles
    \/ \E t \in DOMAIN typesTasks : FinishTypes(t)
    \/ Dedup
    \/ WriteManifest
    \/ Finish

NextMain ==
    \/ NextRun
    \/ PlanFails
    \/ \E i \in DOMAIN calls : RejectCall(i)
    \/ DeclarationsFail
    \/ \E t \in DOMAIN typesTasks : RejectTypes(t)
    \/ Exit

MainSpec == InitMain /\ [][NextMain]_vars

\* every task that can take a step eventually takes one: the event loop runs the
\* callbacks of settled promises and finished I/O
FairMainSpec == MainSpec /\ WF_vars(NextMain)

\* the static exports of the main entry's source: a default export or none, a named
\* export or none, a wildcard re-export of an external package or none, code of its
\* own or import and export statements only
Dep == <<"dep">>
ChunkMenu ==
    [default : BOOLEAN, named : {{}, {"a"}}, stars : {{}, {Dep}}, body : BOOLEAN,
     portable : BOOLEAN]

\* a third entry point: named like the package, like a target's file of another entry,
\* like a development file of another entry, or like none of them
ExtraKeys == {<<"./", "pkg">>, <<"./", "pkg", "browser">>, <<"./", "web", "dev">>, <<"./", "util">>}

ThreeEntries(key) ==
    WithPackageJson(<<[entryPoint |-> Main, value |-> Shorthand(SrcOf.default)],
                      [entryPoint |-> Web, value |-> Shorthand(WebSrc)],
                      [entryPoint |-> key, value |-> Shorthand(SrcOf.esnext)]>>)

Lodash == <<"lodash">>
React == <<"react">>
Ui == <<"@scope", "ui">>

\* the dependency lists of the manifest; a package is never listed as a dependency
\* of itself
DepsMenu ==
    [dependencies : SUBSET {Lodash, Ui},
     peerDependencies : SUBSET {React, Ui},
     bundledDependencies : SUBSET {Lodash, React},
     installed : {{Lodash, React, Ui}}]

\* the bare specifiers the sources import: package names, subpaths of them, the
\* package itself and a package the manifest does not list
Specifiers ==
    {Lodash, <<"lodash", "fp">>, React, <<"react", "jsx-runtime">>, Ui,
     ManifestName, ManifestName \o <<"web">>, <<"other">>}

\* the helpers as a dependency or not, bundled or not, and found by node resolution
\* or not; a declared dependency is installed
HelpersMenu ==
    {d \in [dependencies : SUBSET {Helpers}, peerDependencies : {{}},
            bundledDependencies : SUBSET {Helpers}, installed : SUBSET {Helpers}] :
        /\ d.bundledDependencies \subseteq d.dependencies
        /\ d.dependencies \subseteq d.installed}

HelperImports == {Helpers, Helpers \o <<"_", "_async_to_generator">>}

\* the global names the manifest gives and the marker of the second entry's source
NamingMenu ==
    {[globalName |-> g, amdName |-> a,
      marker |-> [f \in AllSources |-> IF f = WebSrc THEN m ELSE UNDEF]] :
        g \in {UNDEF, <<"Kit">>}, a \in {UNDEF, <<"KitAmd">>}, m \in {UNDEF, <<"Marked">>}}

\* the main entry point and a second one, or the second one alone
MainAnd(key) ==
    WithPackageJson(<<[entryPoint |-> Main, value |-> Shorthand(SrcOf.default)],
                      [entryPoint |-> key, value |-> Shorthand(WebSrc)]>>)
Alone(key) == WithPackageJson(<<[entryPoint |-> key, value |-> Shorthand(WebSrc)]>>)

InitBuild ==
    /\ type = "module"
    /\ tsconfig = TRUE
    /\ targets = EveryTarget
    /\ warnings = {}
    /\ broken = {}
    /\ \/ \* export surfaces
          /\ \/ declared = OneEntry /\ envFiles \in {{}, {SrcOf.default}}
             \/ declared = TwoEntries /\ envFiles = {WebSrc}
          /\ \E c \in ChunkMenu : surface = [f \in AllSources |->
                                                  IF f = SrcOf.default THEN c ELSE PortableChunk]
          /\ deps = [NoDeps EXCEPT !.dependencies = {Dep}]
          /\ imports = {}
          /\ naming = NoNaming
       \/ \* entry names
          /\ \E key \in ExtraKeys : declared = ThreeEntries(key)
          /\ envFiles = {WebSrc}
          /\ surface = [f \in AllSources |-> PlainChunk]
          /\ deps = NoDeps
          /\ imports = {}
          /\ naming = NoNaming
       \/ \* global names
          /\ declared \in {MainAnd(Web), MainAnd(<<"./", "web", "dev">>),
                            MainAnd(<<"./", "pkg">>), Alone(<<"./", "pkg">>)}
          /\ envFiles = {}
          /\ surface = [f \in AllSources |-> PlainChunk]
          /\ deps = NoDeps
          /\ imports = {}
          /\ naming \in NamingMenu
       \/ \* dependency lists
          /\ declared = OneEntry
          /\ envFiles = {}
          /\ surface = [f \in AllSources |-> PlainChunk]
          /\ deps \in DepsMenu
          /\ imports = Specifiers
          /\ naming = NoNaming
       \/ \* the helpers of the compiler
          /\ declared = OneEntry
          /\ envFiles \in {{}, {SrcOf.default}}
          /\ surface = [f \in AllSources |-> PlainChunk]
          /\ deps \in HelpersMenu
          /\ imports = HelperImports
          /\ naming = NoNaming
    /\ InitState

BuildSpec == InitBuild /\ [][NextRun]_vars

----------------------------------------------------------------------------
(* What the claims speak of, read off the state *)

IsPath(v) == v \notin {UNDEF, NULL, EMPTY}

FieldsOfKind(k) == IF k = "node" THEN {"node.import", "node.require"} ELSE {k}

\* the export entry of an accepted entry point
BlockOf(ep) == exports[ep.entryPoint].block
DevBlockOf(ep) == exports[ep.entryPoint].development

\* call j compiles entry point ep
Compiles(j, ep) == ep.outputFile \in DOMAIN calls[j].input

Issued(mode) == {j \in DOMAIN calls : calls[j].mode = mode}
DevStarted == Issued("development") # {}
PassesDone == pc = "dedup"

\* the conditions a target kind is resolved from, most specific first
Consulted(k, c) ==
    CASE k = "node" -> <<c.node, c.default>>
      [] k = "browser" -> <<c.browser, c.default>>
      [] k = "script" -> <<c.script, c.browser, c.default>>
      [] k = "esnext" -> <<c.esnext, c.browser, c.node, c.default>>
      [] k = "module" -> <<c.module, c.browser, c.node, c.default>>

HasSource(k, c) == \E n \in DOMAIN Consulted(k, c) : IsPath(Consulted(k, c)[n])

FirstPath(vs) ==
    IF \E n \in DOMAIN vs : IsPath(vs[n])
    THEN vs[CHOOSE n \in DOMAIN vs : IsPath(vs[n]) /\ \A m \in 1..(n - 1) : ~IsPath(vs[m])]
    ELSE UNDEF

Suppressed(k, c) == k \in {"esnext", "node", "script", "browser"} /\ c[k] = NULL

\* entry point ep is to be built for kind k
Eligible(k, ep) == targets[k] /\ ~Suppressed(k, ep.conditions) /\ HasSource(k, ep.conditions)

----------------------------------------------------------------------------
(* C1: an accepted entry point whose esnext, node, script or browser condition is  *)
(* null is in no call of that kind, in the production pass and in the development  *)
(* pass, and its export entry and development block have no field of that kind,    *)
(* whether or not the target is enabled.                                           *)
C1_SuppressionRespected ==
    \A i \in DOMAIN entryPoints : \A k \in {"esnext", "node", "script", "browser"} :
        LET ep == entryPoints[i] IN
        ep.conditions[k] = NULL =>
            /\ \A j \in DOMAIN calls : calls[j].kind = k => ~Compiles(j, ep)
            /\ \A f \in FieldsOfKind(k) : ~IsPath(BlockOf(ep)[f]) /\ ~IsPath(DevBlockOf(ep)[f])

\* both passes are over, script is enabled and built for one entry point, and the
\* other entry point has script: null
C1_Witness ==
    /\ PassesDone /\ DevStarted /\ targets.script
    /\ \E i \in DOMAIN entryPoints : entryPoints[i].conditions.script = NULL
    /\ \E j \in Issued("development") : calls[j].kind = "script"

C6_MissingSourceDropsTask ==
    \A i \in DOMAIN entryPoints : \A k \in {"node", "browser", "script"} :
        LET ep == entryPoints[i] IN
        ~HasSource(k, ep.conditions) =>
            /\ \A j \in DOMAIN calls : calls[j].kind = k => ~Compiles(j, ep)
            /\ \A f \in FieldsOfKind(k) : ~IsPath(BlockOf(ep)[f]) /\ ~IsPath(DevBlockOf(ep)[f])
            /\ \A k2 \in Kinds :
                  Eligible(k2, ep) =>
                      /\ \A f \in FieldsOfKind(k2) : IsPath(BlockOf(ep)[f])
                      /\ pc \notin {"prepare", "plan", "planned", "failed"} =>
                            \E j \in Issued("production") : calls[j].kind = k2 /\ Compiles(j, ep)
                      /\ DevStarted =>
                            \E j \in Issued("development") : calls[j].kind = k2 /\ Compiles(j, ep)

\* both passes are over with every kind on; the main entry point declares node only,
\* a browser call ran without it and the node call compiled it
C6_Witness ==
    /\ PassesDone /\ DevStarted /\ \A k \in Kinds : targets[k]
    /\ \E i \in DOMAIN entryPoints :
          LET ep == entryPoints[i] IN
          /\ ep.entryPoint = Main
          /\ ~HasSource("browser", ep.conditions) /\ ~HasSource("script", ep.conditions)
          /\ \E j \in Issued("development") : calls[j].kind = "browser" /\ ~Compiles(j, ep)
          /\ \E j \in Issued("development") : calls[j].kind = "node" /\ Compiles(j, ep)

(* C8: in each pass there is at most one call for each of esnext, module and node, *)
(* and it compiles exactly the eligible entry points; for script there is exactly  *)
(* one call per eligible entry point, with one input and one output file, and no   *)
(* two script calls write the same file.                                           *)
EligibleNames(k) ==
    {entryPoints[i].outputFile : i \in {i \in DOMAIN entryPoints : Eligible(k, entryPoints[i])}}

EnvSeen ==
    \E j \in finished \cup wrapping :
        \E name \in DOMAIN calls[j].input : calls[j].input[name] \in envFiles

IsDevFile(f) == \E n \in DOMAIN f : f[n] = "dev"

C9_State ==
    /\ pc \in {"prepare", "plan", "planned"} => ~needsDevelopmentBuild
    /\ needsDevelopmentBuild = EnvSeen
    /\ DevStarted => Issued("production") \subseteq finished
    /\ pc \in {"development", "dedup"} => (DevStarted <=> needsDevelopmentBuild)
    /\ DevStarted =>
          \A i \in DOMAIN entryPoints : \A k \in Kinds :
              Eligible(k, entryPoints[i]) =>
                  \E j \in Issued("development") : calls[j].kind = k /\ Compiles(j, entryPoints[i])
    /\ ~DevStarted =>
          /\ \A f \in dist : ~IsDevFile(f)
          /\ \A e \in DOMAIN exports : ~exports[e].hasDev

C9_Latch == [](C9_State) /\ [][needsDevelopmentBuild => needsDevelopmentBuild']_vars

\* the production pass is still running, the flag is already set by a finished call,
\* and a call that imports nothing from 'distilt/env' has yet to finish
C9_Witness ==
    /\ pc = "production"
    /\ needsDevelopmentBuild
    /\ \E j \in DOMAIN calls :
          /\ j \notin finished
          /\ \A name \in DOMAIN calls[j].input : calls[j].input[name] \notin envFiles

(* C10: once the development pass is issued every accepted entry point has a       *)
(* development block with a field exactly where its export entry has one, holding  *)
(* the production path with .dev before its last extension, and that is a file a   *)
(* development call of the same entry point and kind writes, for both package      *)
(* types.                                                                          *)
InsertDev(p) == SubSeq(p, 1, Len(p) - 1) \o <<"dev", p[Len(p)]>>

\* path.resolve(paths.dist, p), relative to paths.dist
InDist(p) == IF p[1] = "./" THEN SubSeq(p, 2, Len(p)) ELSE p

KindsOfField(f) ==
    CASE f \in {"node.import", "node.require"} -> {"node"}
      [] f = "default" -> Kinds
      [] OTHER -> {f}

C10_DevelopmentMirrors ==
    DevStarted =>
        \A i \in DOMAIN entryPoints :
            LET ep == entryPoints[i]
                b == BlockOf(ep)
                d == DevBlockOf(ep)
            IN  /\ exports[ep.entryPoint].hasDev
                /\ \A f \in FieldNames \ {"types"} :
                      /\ IsPath(d[f]) <=> IsPath(b[f])
                      /\ IsPath(b[f]) =>
                            /\ d[f] = InsertDev(b[f])
                            /\ \E j \in Issued("development") :
                                  /\ calls[j].kind \in KindsOfField(f)
                                  /\ Compiles(j, ep)
                                  /\ InDist(d[f]) \in Written(calls[j]) \cup Wrappers(calls[j])
                            /\ PassesDone => InDist(d[f]) \in dist

\* both passes are over in a commonjs package and an entry point has node and module
\* fields with their development counterparts
C10_Witness ==
    /\ PassesDone /\ DevStarted /\ type = "commonjs"
    /\ \E i \in DOMAIN entryPoints :
          /\ IsPath(DevBlockOf(entryPoints[i])["node.require"])
          /\ IsPath(DevBlockOf(entryPoints[i])["module"])
          /\ IsPath(DevBlockOf(entryPoints[i])["script"])

----------------------------------------------------------------------------
(* Claims about planning, checked over every condition set (PlanSpec) *)

(* C2, as claimed: every accepted entry point's export entry has a default field,  *)
(* whatever targets are enabled.                                                   *)
C2_DefaultAlwaysPresent ==
    \A i \in DOMAIN entryPoints : IsPath(BlockOf(entryPoints[i])["default"])

NodeField == IF type = "commonjs" THEN "node.require" ELSE "node.import"

(* C2, amended: an accepted entry point's export entry has a default field exactly *)
(* when it has a module, node, esnext or script field, so always when the module   *)
(* target is enabled; with none of these it has no default, even with a browser    *)
(* field.                                                                          *)
C2_DefaultWhenFallbackExists ==
    \A i \in DOMAIN entryPoints :
        LET b == BlockOf(entryPoints[i]) IN
        /\ IsPath(b["default"]) <=>
              \E f \in {"module", NodeField, "esnext", "script"} : IsPath(b[f])
        /\ targets.module => IsPath(b["default"])

\* an accepted entry point with a browser field and no default, and nothing else
C2_Witness ==
    \E i \in DOMAIN entryPoints :
        LET b == BlockOf(entryPoints[i]) IN
        /\ IsPath(b["browser"]) /\ ~IsPath(b["default"])
        /\ pc = "production"

(* C3: default is the first present of module, the node path of the package type   *)
(* (node.require for commonjs, node.import otherwise), esnext, script; it is never *)
(* the browser path.                                                               *)
C3_DefaultPrecedence ==
    \A i \in DOMAIN entryPoints :
        LET b == BlockOf(entryPoints[i])
            candidates == <<b["module"], b[NodeField], b["esnext"], b["script"]>>
        IN  /\ IF \E n \in 1..4 : IsPath(candidates[n])
               THEN b["default"] = FirstPath(candidates)
               ELSE ~IsPath(b["default"])
            /\ IsPath(b["browser"]) => b["default"] # b["browser"]

\* a commonjs package without module target: default is node.require although esnext
\* and script are there too
C3_Witness ==
    \E i \in DOMAIN entryPoints :
        LET b == BlockOf(entryPoints[i]) IN
        /\ type = "commonjs" /\ ~IsPath(b["module"])
        /\ IsPath(b["esnext"]) /\ IsPath(b["script"]) /\ IsPath(b["browser"])
        /\ IsPath(b["node.require"]) /\ b["default"] = b["node.require"]

(* C4, as claimed: every call compiles an entry point from the first present of    *)
(* the condition named after the call's kind, then the conditions the kind falls   *)
(* back to, default last for node, browser and script.                             *)
NamedFirst(k, c) ==
    CASE k = "node" -> <<c.node, c.default>>
      [] k = "browser" -> <<c.browser, c.default>>
      [] k = "script" -> <<c.script, c.browser, c.default>>
      [] k = "esnext" -> <<c.esnext, c.default, c.browser, c.node>>
      [] k = "module" -> <<c.module, c.default, c.browser, c.node>>

C4_TargetNamedConditionFirst ==
    \A j \in DOMAIN calls : \A i \in DOMAIN entryPoints :
        LET ep == entryPoints[i] IN
        Compiles(j, ep) =>
            calls[j].input[ep.outputFile] = FirstPath(NamedFirst(calls[j].kind, ep.conditions))

(* C5: a declared entry is rejected iff none of default, browser, node holds a path *)
(* or some declared value is neither null nor a path with a source extension (a    *)
(* string counts as its default); a rejected entry is in no call and no type       *)
(* bundle, and its declared value stays under its subpath in the exports.          *)
ClaimConds(value) ==
    IF value.shorthand
    THEN [c \in CondNames |-> IF c = "default" THEN value.string ELSE UNDEF]
    ELSE value.conds

EndsInSourceExtension(v) ==
    Len(v) >= 2 /\ v[Len(v)] \in {"ts", "tsx", "js", "jsx", "mjs", "cjs"}

ShouldReject(value) ==
    LET c == ClaimConds(value) IN
    \/ ~IsPath(c.default) /\ ~IsPath(c.browser) /\ ~IsPath(c.node)
    \/ \E n \in CondNames : c[n] # UNDEF /\ c[n] # NULL /\ ~EndsInSourceExtension(c[n])

Stem(e) == IF e = Main THEN <<ManifestName[Len(ManifestName)]>> ELSE SubSeq(e, 2, Len(e))

C5_Rejection ==
    \A n \in DOMAIN declared :
        LET d == declared[n]
            e == d.entryPoint
            rejected == ~\E i \in DOMAIN entryPoints : entryPoints[i].entryPoint = e
            values == {ClaimConds(d.value)[c] : c \in CondNames}
        IN  /\ pc \notin {"prepare", "plan"} => (rejected <=> ShouldReject(d.value))
            /\ (pc \in {"prepare", "plan"} \/ rejected) =>
                  /\ ~exports[e].synth /\ ~exports[e].hasDev
                  /\ exports[e].raw = d.value
                  /\ \A j \in DOMAIN calls :
                        /\ Stem(e) \notin DOMAIN calls[j].input
                        /\ \A name \in DOMAIN calls[j].input : calls[j].input[name] \notin values
                  /\ \A t \in DOMAIN typesTasks :
                        /\ typesTasks[t].dtsFile # Stem(e) \o <<"d", "ts">>
                        /\ typesTasks[t].inputFile \notin values

\* the production pass is issued and the declared entry point was rejected for its
\* script condition alone: its default is a source file
C5_Witness ==
    /\ pc = "production"
    /\ \E n \in DOMAIN declared :
          LET d == declared[n] IN
          /\ ~d.value.shorthand
          /\ d.value.conds.default = SrcOf.default
          /\ d.value.conds.script = StyleSheet
          /\ ~exports[d.entryPoint].synth


----------------------------------------------------------------------------
(* Claims about the order of main()'s phases and about failing tasks (MainSpec) *)

(* C15: the output directory is cleared and recreated exactly once per run, and    *)
(* nothing is started and nothing is written into it before that: while prepare()  *)
(* has not completed the directory holds the old build only, no declaration        *)
(* generation, copy, compile call or type bundle exists, and every later change of *)
(* the directory happens with the preparation done once.                           *)
C15_State ==
    /\ prepared <= 1
    /\ pc = "prepare" =>
          /\ prepared = 0 /\ dist = {OldBuild}
          /\ declarations = "none" /\ copied = "idle"
          /\ calls = <<>> /\ typesTasks = <<>> /\ typesDone = {} /\ content = <<>>
    /\ pc # "prepare" => prepared = 1 /\ OldBuild \notin dist

C15_PreparedOnce ==
    [](C15_State) /\ [][dist' # dist => (prepared' = 1 /\ (prepared = 0 => dist' = {}))]_vars

\* a run that succeeded: prepared once, with copied files, bundles, types and manifest
C15_Witness ==
    /\ pc = "done" /\ prepared = 1
    /\ {ManifestFile, Readme} \subseteq dist
    /\ typesDone # {} /\ finished # {}

(* C14: de-duplication begins only when every call of the production pass and, if  *)
(* one was issued, of the development pass has written its files and wrappers, so  *)
(* both files of every compared pair exist; from then on no call finishes, none is *)
(* issued, and a file becomes a facade in the de-duplication step only.            *)
DedupBegun == pc \in {"dedup", "deduped", "written", "done"}

ComparedFiles ==
    {InDist(p) : p \in
        {p \in UNION {{BlockOf(entryPoints[i])[f], DevBlockOf(entryPoints[i])[f]} :
                        i \in DOMAIN entryPoints, f \in {"esnext", "module", "browser", "node.require"}} :
            IsPath(p)}}

C14_State ==
    DedupBegun =>
        /\ finished = DOMAIN calls /\ wrapping = {}
        /\ needsDevelopmentBuild <=> DevStarted
        /\ ComparedFiles \subseteq DOMAIN content
        /\ ComparedFiles \subseteq dist

C14_DedupLast ==
    /\ [](C14_State)
    /\ [][/\ DedupBegun => (finished' = finished /\ wrapping' = wrapping /\ calls' = calls)
          /\ (\E f \in DOMAIN content : IsFacade(content'[f]) /\ ~IsFacade(content[f]))
                => (pc = "dedup" /\ finished = DOMAIN calls)]_vars

\* de-duplication after both passes has turned a file into a facade
C14_Witness ==
    /\ pc = "deduped" /\ DevStarted
    /\ \E f \in DOMAIN content : IsFacade(content[f])

(* C16, as claimed: the manifest write is enabled as soon as entry resolution and  *)
(* manifest synthesis are done, whatever the compile tasks are doing.              *)
C16_ManifestAfterPlanning ==
    (pc \in {"planned", "production", "development", "dedup"} /\ ManifestFile \notin dist)
        => ENABLED WriteManifest

(* C16, amended: the manifest is written last in generateMultiBundles: the write is *)
(* enabled, and the file exists, only when planning, every call of both passes with *)
(* its wrappers, de-duplication and every type bundle have completed; it is never   *)
(* written while a compile call is in progress.                                     *)
C16_ManifestLast ==
    ((ENABLED WriteManifest) \/ ManifestFile \in dist) =>
        /\ pc \in {"deduped", "written", "done", "failed"}
        /\ finished = DOMAIN calls /\ wrapping = {}
        /\ typesDone = DOMAIN typesTasks
        /\ needsDevelopmentBuild <=> DevStarted
        /\ \A i \in DOMAIN entryPoints : exports[entryPoints[i].entryPoint].synth

\* the manifest is written after a production and a development pass and type bundles
C16_Witness ==
    /\ pc = "written" /\ ManifestFile \in dist
    /\ DevStarted /\ typesDone # {}

(* C17: once a compile call, a type bundle, the declaration generation or planning *)
(* has rejected, the run never reports success and ends with process.exit(1); a    *)
(* run that reports success has every call and every type bundle completed; a      *)
(* rejected task never completes afterwards, no issued call is changed or issued    *)
(* again, and each pass has at most one call per batched kind and one script call   *)
(* per entry point.                                                                 *)
C17_State ==
    /\ failure # {} => pc # "done"
    /\ pc = "done" =>
          /\ \A i \in DOMAIN calls : i \in finished /\ ~CallRejects(calls[i])
          /\ typesDone = DOMAIN typesTasks
          /\ declarations \in {"none", "done"}
    /\ \A i \in DOMAIN calls : <<"call", i>> \in failure => i \notin finished \cup wrapping
    /\ \A t \in DOMAIN typesTasks : <<"types", t>> \in failure => t \notin typesDone
    /\ \A m \in Modes : \A k \in Kinds :
          Cardinality({j \in Issued(m) : calls[j].kind = k})
              <= IF k = "script" THEN Len(entryPoints) ELSE 1
    /\ Len(typesTasks) <= Len(entryPoints)

C17_FailureIsFinal ==
    /\ [](C17_State)
    /\ [][/\ failure \subseteq failure'
          /\ finished \subseteq finished'
          /\ \A i \in DOMAIN calls : i \in DOMAIN calls' /\ calls'[i] = calls[i]
          /\ pc = "failed" => pc' = "failed"]_vars
    /\ (failure # {}) ~> (pc = "failed")

\* the process has exited with 1 after a call rejected, with files of other calls
\* of the pass already written
C17_Witness ==
    /\ pc = "failed"
    /\ \E i \in DOMAIN calls : <<"call", i>> \in failure
    /\ finished # {}

(* C18, as claimed: planning never raises, whatever the declared export values     *)
(* are; an export without a usable value only shortens the list of entry points.   *)
C18_PlanningNeverThrows ==
    /\ <<"plan">> \notin failure
    /\ pc \notin {"prepare", "plan"} =>
          \A n \in DOMAIN declared :
              IsNullish(declared[n].value) =>
                  ~\E i \in DOMAIN entryPoints : entryPoints[i].entryPoint = declared[n].entryPoint

Unresolved(i) == {w \in CallWarnings(calls[i]) : w.code = "UNRESOLVED_IMPORT"}
Settled(i) == i \in finished \cup wrapping
Failed(i) == <<"call", i>> \in failure

(* C19, as claimed: in every kind but script an unresolved import never fails the  *)
(* call and is logged; a call fails for an unresolved import only in the script    *)
(* kind and only for a node: specifier.                                            *)
C19_OnlyScriptPromotes ==
    \A i \in DOMAIN calls : \A w \in Unresolved(i) :
        /\ calls[i].kind # "script" => (~Failed(i) /\ (Settled(i) => <<i, w>> \in warned))
        /\ Failed(i) => (calls[i].kind = "script" /\ StartsWithNode(w.source))

(* C19, amended: an unresolved import of a node: specifier fails the call in the   *)
(* browser and the script kind, and is dropped without a log line in the esnext,   *)
(* module and node kinds; every other unresolved import is logged and the call     *)
(* completes, in every kind.  A call whose sources compile fails for no other      *)
(* reason, and a run with a failed call does not report success.                   *)
C19_BrowserAndScriptPromote ==
    \A i \in DOMAIN calls : \A w \in Unresolved(i) :
        /\ (calls[i].kind \in {"browser", "script"} /\ StartsWithNode(w.source))
              => (~Settled(i) /\ pc # "done")
        /\ (calls[i].kind \in {"esnext", "module", "node"} /\ StartsWithNode(w.source))
              => (~Failed(i) /\ <<i, w>> \notin warned)
        /\ ~StartsWithNode(w.source)
              => (~Failed(i) /\ (Settled(i) => <<i, w>> \in warned))
        /\ (Failed(i) /\ Sources(calls[i]) \cap broken = {})
              => (calls[i].kind \in {"browser", "script"} /\ StartsWithNode(w.source))

\* the run has failed for the browser call's unresolved node: import, which the
\* esnext call of the same source has passed over
C19_Witness ==
    /\ pc = "failed"
    /\ \E i, j \in DOMAIN calls :
          /\ calls[i].kind = "browser" /\ Failed(i) /\ UnresolvedNode \in Unresolved(i)
          /\ calls[j].kind = "esnext" /\ Settled(j) /\ UnresolvedNode \in Unresolved(j)

----------------------------------------------------------------------------
(* C11: the esm wrappers of the node task *)

NodeCalls == {i \in DOMAIN calls : calls[i].kind = "node"}

\* the wrapper of one entry chunk of a finished node call is in place and exports
\* what the chunk exports
WrapperMatches(i, name) ==
    LET w == WrapperFileName(calls[i], name)
        cjs == EntryFileName(calls[i], name)
        chunk == Compiled(calls[i], calls[i].input[name])
    IN /\ w \in dist /\ w \in DOMAIN content
       /\ w = name \o Suffix(calls[i].mode) \o <<"mjs">>
       /\ content[w].code = <<"wrapper", cjs>>
       /\ content[w].named = chunk.named
       /\ content[w].default
       /\ content[w].defaultIs = (IF chunk.default THEN "default" ELSE "module.exports")
       /\ content[w].stars = chunk.stars

\* C11: every entry chunk of a finished node call, in either mode, has its wrapper
\* <stem>[.dev].mjs, which re-exports exactly the chunk's named exports from the
\* CommonJS file, has a default export (the chunk's default, else the module object)
\* and one `export * from` per wildcard re-export of the chunk; and a wrapper only
\* appears in a step taken after the CommonJS files of its call were written.
C11_NodeWrappers ==
    /\ [](\A i \in NodeCalls \cap finished :
            \A name \in DOMAIN calls[i].input : WrapperMatches(i, name))
    /\ [][\A i \in NodeCalls :
            (\E w \in Wrappers(calls[i]) : w \notin dist /\ w \in dist')
                => Written(calls[i]) \subseteq dist]_vars

\* a development node call is done whose main chunk has a named export and a
\* wildcard re-export but no default, next to a chunk with a default
C11_Witness ==
    \E i \in NodeCalls \cap finished :
        /\ calls[i].mode = "development"
        /\ Cardinality(DOMAIN calls[i].input) = 2
        /\ \E name \in DOMAIN calls[i].input :
              LET chunk == Compiled(calls[i], calls[i].input[name]) IN
              /\ ~chunk.default /\ chunk.named = {"a"} /\ chunk.stars = {Dep}
              /\ content[WrapperFileName(calls[i], name)].defaultIs = "module.exports"
        /\ \E name \in DOMAIN calls[i].input :
              content[WrapperFileName(calls[i], name)].defaultIs = "default"
----------------------------------------------------------------------------
(* C12: a facade exports what its canonical file exports *)

\* the named bindings a file of dist exposes: its own, those of the dist files it
\* re-exports with a wildcard, and whatever an external package behind a wildcard has
RECURSIVE NamesOf(_, _)
NamesOf(c, f) ==
    {<<n>> : n \in c[f].named}
        \cup UNION {IF sp \in DOMAIN c THEN NamesOf(c, sp) ELSE {<<"*">> \o sp} : sp \in c[f].stars}

Rewritten(f) == f \in DOMAIN content /\ IsFacade(content'[f]) /\ ~IsFacade(content[f])
CanonicalOf(f) == content'[f].code[2]

\* C12: a file rewritten into a facade has a default export iff its canonical file had
\* one, exposes exactly the named bindings the canonical file exposed (those behind
\* wildcard re-exports included, and through facades of facades), and is a bare
\* `import` iff the canonical file exported nothing.
C12_FacadeEquivalence ==
    [][\A f \in DOMAIN content :
          Rewritten(f) =>
              LET a == CanonicalOf(f) IN
              /\ content'[f].default = content[a].default
              /\ NamesOf(content', f) = NamesOf(content, a)
              /\ content'[f].code[3] # "require" =>
                    ((content'[f].code[3] = "import")
                        <=> (~content[a].default /\ NamesOf(content, a) = {}))]_vars
----------------------------------------------------------------------------
(* C13: the files of the build tasks *)

\* the builds of a run: an accepted entry point, a target kind that is switched on
\* and has a source for it, and a mode that is built
Builds ==
    {b \in (DOMAIN entryPoints) \X Kinds \X Modes :
        /\ targets[b[2]]
        /\ NotSuppressed(b[2], entryPoints[b[1]].conditions)
        /\ Truthy(SourceFor(b[2], entryPoints[b[1]].conditions))
        /\ b[3] = "development" => needsDevelopmentBuild}

\* the file a build is written to
PathOf(b) ==
    LET ep == entryPoints[b[1]] IN
    EntryFileName([kind |-> b[2], mode |-> b[3],
                   file |-> ep.outputFile \o <<"global">> \o Suffix(b[3]) \o <<"js">>],
                  ep.outputFile)

\* the files one call of the pass writes
FilesOf(i) ==
    Written(calls[i]) \cup (IF calls[i].kind = "node" THEN Wrappers(calls[i]) ELSE {})

\* C13: two different builds (entry point, target kind, mode) are written to two
\* different files, and no two tasks running in the same pass write the same file.
C13_DisjointWrites ==
    /\ \A a, b \in Builds : a # b => PathOf(a) # PathOf(b)
    /\ \A i, j \in DOMAIN calls :
          i # j => FilesOf(i) \cap FilesOf(j) = {}
    /\ \A t, u \in DOMAIN typesTasks : t # u => typesTasks[t].dtsFile # typesTasks[u].dtsFile
----------------------------------------------------------------------------
(* C20: which imports stay outside the bundles *)

\* the specifier names the package or a path below it
IsOrUnder(sp, package) ==
    Len(sp) >= Len(package) /\ \A k \in 1..Len(package) : sp[k] = package[k]

Under(sp, packages) == \E package \in packages : IsOrUnder(sp, package)

----------------------------------------------------------------------------
(* C23: the legacy fields of the published manifest *)

\* the export map declares '.' with a value planning accepts
MainAccepted ==
    \E i \in DOMAIN declared :
        declared[i].entryPoint = Main /\ Accepted(Normalize(declared[i].value))

\* C23: after planning, with an accepted main entry the legacy fields are those of its
\* export entry (main its node.require, else its module; unpkg and jsdelivr its
\* script); without an accepted main entry they are the declared ones.
C23_LegacyFromMainOnly ==
    pc = "planned" =>
        IF MainAccepted
        THEN LET b == exports[Main].block IN
             /\ legacy.main = (IF IsPath(b["node.require"]) THEN b["node.require"] ELSE b["module"])
             /\ legacy.module = b["module"]
             /\ legacy.esnext = b["esnext"]
             /\ legacy.browser = b["browser"]
             /\ legacy.types = b["types"]
             /\ legacy.unpkg = b["script"] /\ legacy.jsdelivr = b["script"]
        ELSE legacy = DeclaredLegacy
----------------------------------------------------------------------------
(* C21: the helpers of the compiler *)

HelperResolutions == {r \in resolved : IsOrUnder(r[2], Helpers)}

HelpersDeclared == Helpers \in deps.dependencies

----------------------------------------------------------------------------
(* C22: the global name of a script build *)

\* the script calls of the pass are its last calls, one per entry point with a script
\* build, in the order of the entry points
ScriptEntries == Inputs("script", entryPoints)
ScriptCallOf(k) == calls[Len(calls) - Len(ScriptEntries) + k]

\* the package's global name: the manifest's globalName, else its amdName, else
\* scope.name for @scope/name
PackageGlobal ==
    IF naming.globalName # UNDEF THEN naming.globalName
    ELSE IF naming.amdName # UNDEF THEN naming.amdName
    ELSE <<"scope", ".", "pkg">>

\* a stem with every character that is none of an identifier replaced by '_'
Legalized(stem) ==
    [k \in 1..(2 * Len(stem) - 1) |-> IF k % 2 = 1 THEN stem[(k + 1) \div 2] ELSE "_"]

\* C22: a script build is named by the marker of its source if there is one; else the
\* build of the main entry '.' by the package's global name; else by
\* <package global>_<legalized stem>, so that an entry other than '.' without a marker
\* never has the bare package global name.
C22_GlobalNames ==
    (pc \in {"production", "development"} /\ targets.script) =>
        \A k \in DOMAIN ScriptEntries :
            LET ep == ScriptEntries[k]
                marker == naming.marker[ScriptSource(ep.conditions)]
                name == ScriptCallOf(k).name
            IN /\ ScriptCallOf(k).kind = "script"
               /\ name = (IF marker # UNDEF THEN marker
                          ELSE IF ep.entryPoint = Main THEN PackageGlobal
                          ELSE PackageGlobal \o <<"_">> \o Legalized(ep.outputFile))
               /\ (ep.entryPoint # Main /\ marker = UNDEF) => name # PackageGlobal
----------------------------------------------------------------------------
(* C24: the source maps next to the artifacts *)

\* the files written for the entry points: the module files and the declarations
DtsFiles == {typesTasks[t].dtsFile : t \in typesDone}
Artifacts == DOMAIN content \cup DtsFiles

HasMap(f) == (f \o <<"map">>) \in dist
RewrittenToFacade(f) == f \in DOMAIN content /\ IsFacade(content[f])
IsWrapper(f) == f \in DOMAIN content /\ content[f].code[1] = "wrapper"

(* C24, as claimed: at the end of a successful run every artifact, the wrappers of  *)
(* the node build included, has a source map next to it iff it is no facade.        *)
C24_MapUnlessFacade ==
    pc = "done" => \A f \in Artifacts : f \in dist /\ (HasMap(f) <=> ~RewrittenToFacade(f))

(* C24, amended: at the end of a successful run every artifact is in the output     *)
(* directory, and it has a source map next to it iff it is neither a facade nor a   *)
(* wrapper of the node build: the wrappers are written without a source map.        *)
C24_MapUnlessFacadeOrWrapper ==
    pc = "done" =>
        \A f \in Artifacts :
            f \in dist /\ (HasMap(f) <=> ~(RewrittenToFacade(f) \/ IsWrapper(f)))

\* a build with both passes has ended: there is a development file that is a facade, a
\* production file that is none, a wrapper and a declaration file
C24_Witness ==
    /\ pc = "done" /\ needsDevelopmentBuild
    /\ \E f, g, w \in DOMAIN content :
          /\ RewrittenToFacade(f) /\ IsDevFile(f) /\ ~HasMap(f)
          /\ ~RewrittenToFacade(g) /\ ~IsWrapper(g) /\ HasMap(g)
          /\ IsWrapper(w) /\ ~HasMap(w)
    /\ \E d \in DtsFiles : HasMap(d)
----------------------------------------------------------------------------
(* C25: what a comparison of the de-duplicate loop leaves alone *)

\* the two files are the same text once their source-map references are removed
Equivalent(s) == s.fromRead # UNDEF /\ s.fromRead = s.toRead

\* the pair is the development and the production file of one field of an entry, or
\* the esnext and the module file of an entry
PairOfEntry(s) ==
    \E e \in DOMAIN exports :
        \/ \E f \in {"esnext", "module", "browser", "node.require"} :
              /\ exports[e].hasDev
              /\ exports[e].development[f] # UNDEF /\ exports[e].block[f] # UNDEF
              /\ s.from = Slice2(exports[e].development[f])
              /\ s.to = Slice2(exports[e].block[f])
        \/ /\ exports[e].block.esnext # UNDEF /\ exports[e].block.module # UNDEF
           /\ s.from = Slice2(exports[e].block.esnext)
           /\ s.to = Slice2(exports[e].block.module)

\* C25: a comparison of two files that are not equivalent changes no file and no
\* source map; one of two equivalent files rewrites the duplicate only (the
\* development file of a production/development pair, the esnext file of the
\* esnext/module pair) and removes the duplicate's source map only, and leaves the
\* canonical file as it was.
C25_DedupFrame ==
    \A k \in DOMAIN steps :
        LET s == steps[k] IN
        /\ PairOfEntry(s)
        /\ ~Equivalent(s) => (s.rewritten = {} /\ s.unlinked = {})
        /\ Equivalent(s) =>
              /\ s.rewritten = {s.from}
              /\ s.unlinked = {s.from \o <<"map">>}
              /\ s.to \notin s.rewritten
              /\ content[s.from].code[2] = s.to
              /\ ~HasMap(s.from)

\* the loop has rewritten the development file of one pair and left the files of
\* another pair, which differ, alone
C25_Witness ==
    \E j, k \in DOMAIN steps :
        /\ Equivalent(steps[j]) /\ IsDevFile(steps[j].from) /\ steps[j].rewritten = {steps[j].from}
        /\ ~Equivalent(steps[k]) /\ steps[k].rewritten = {}
        /\ HasMap(steps[k].from) /\ HasMap(steps[k].to)
----------------------------------------------------------------------------
(* C28: the comparisons read what the compilers wrote *)

IsCompiled(text) == text # UNDEF /\ text[1] = "chunk"
TargetOf(f) == content[f].code[2]

\* C28: every comparison of the de-duplicate loop reads two files as the compilers
\* wrote them, no file is rewritten by two steps, and from every facade the files it
\* re-exports from lead to a compiled file in at most two hops.
C28_DedupReadsCompiled ==
    /\ \A k \in DOMAIN steps : IsCompiled(steps[k].fromRead) /\ IsCompiled(steps[k].toRead)
    /\ \A j, k \in DOMAIN steps : j # k => steps[j].rewritten \cap steps[k].rewritten = {}
    /\ \A f \in DOMAIN content :
          IsFacade(content[f]) =>
              /\ TargetOf(f) \in DOMAIN content
              /\ \/ IsCompiled(content[TargetOf(f)].code)
                 \/ /\ IsFacade(content[TargetOf(f)])
                    /\ IsCompiled(content[TargetOf(TargetOf(f))].code)
----------------------------------------------------------------------------
(* C27: the published paths name files of the build *)

PublishedFields == {"esnext", "module", "browser", "script", "node.import", "node.require", "default"}

\* the compile passes are over
Compiled_ == pc \in {"dedup", "deduped", "written", "done"}

\* the path names a module file in the output directory
Built(path) == Slice2(path) \in dist /\ Slice2(path) \in DOMAIN content

\* C27: once the compile passes of a run are over, and up to its end, every path that
\* the export entry of an accepted entry point names under esnext, module, browser,
\* script, node.import, node.require or default, or under these fields of its
\* development block, names a file that a build task has written to the output
\* directory.
C27_PublishedPathsBuilt ==
    Compiled_ =>
        \A k \in DOMAIN entryPoints : \A f \in PublishedFields :
            LET e == exports[entryPoints[k].entryPoint] IN
            /\ e.synth
            /\ IsPath(e.block[f]) => Built(e.block[f])
            /\ (e.hasDev /\ IsPath(e.development[f])) => Built(e.development[f])

\* both passes are over for an entry with a node condition and without a browser
\* build, next to a second entry: its node files and their development twins are
\* there
C27_Witness ==
    /\ Compiled_ /\ needsDevelopmentBuild /\ Len(entryPoints) = 2
    /\ \E k \in DOMAIN entryPoints :
          LET e == exports[entryPoints[k].entryPoint] IN
          /\ entryPoints[k].conditions.node \notin {UNDEF, NULL}
          /\ e.hasDev
          /\ IsPath(e.block["node.import"]) /\ Built(e.block["node.import"])
          /\ IsPath(e.development["node.require"]) /\ Built(e.development["node.require"])
          /\ IsPath(e.development["default"]) /\ Built(e.development["default"])
----------------------------------------------------------------------------
(* C26: the manifest is written once, after everything else of generateMultiBundles *)

\* a compile call or a type bundle has rejected
TaskFailed == \E x \in failure : x[1] \in {"call", "types"}

\* every call of every scheduled pass with its wrappers, de-duplication and every type
\* bundle have completed
AllCompleted ==
    /\ pc = "deduped"
    /\ finished = DOMAIN calls /\ wrapping = {}
    /\ needsDevelopmentBuild <=> DevStarted
    /\ typesDone = DOMAIN typesTasks

ManifestWritten == pc' = "written" /\ pc # "written"

\* C26: a run writes the published manifest at most once, and a run that reports
\* success has written it; the write happens only when every compile call of every
\* scheduled pass, de-duplication and every type bundle have completed and none of
\* them has rejected; in a run where a compile call or a type bundle rejects the
\* manifest is never in the output directory.
C26_ManifestOnce ==
    /\ [](/\ TaskFailed => ManifestFile \notin dist
          /\ pc = "done" => ManifestFile \in dist
          /\ ManifestFile \in dist => pc \in {"written", "done", "failed"})
    /\ [][/\ ManifestWritten => (AllCompleted /\ ~TaskFailed /\ ManifestFile \notin dist)
          /\ (ManifestFile \notin dist /\ ManifestFile \in dist') => ManifestWritten
          /\ ManifestFile \in dist => ManifestFile \in dist']_vars

\* a run with both passes and a type bundle has ended with its manifest
C26_Witness ==
    /\ pc = "done" /\ ManifestFile \in dist
    /\ DevStarted /\ typesDone # {} /\ failure = {}
----------------------------------------------------------------------------
(* C29: type bundles and the tsconfig *)

TypesFieldOf(k) == exports[entryPoints[k].entryPoint].block["types"]

\* the passes have been started: the type bundles of the run are issued
TasksIssued == pc \in {"production", "development", "dedup", "deduped", "written", "done", "failed"}

\* C29: a type bundle is issued for an accepted entry point exactly when its export
\* entry has a types field, that is, when a tsconfig was found; without a tsconfig no
\* type bundle is attempted, and a run with an accepted entry point in which no
\* compiler raises does not fail.
C29_TypesIffTsconfig ==
    TasksIssued =>
        /\ \A k \in DOMAIN entryPoints :
              (TypesFieldOf(k) # UNDEF) <=>
                  (\E t \in DOMAIN typesTasks : typesTasks[t].dtsFile = Slice2(TypesFieldOf(k)))
        /\ ~tsconfig => typesTasks = <<>>
        /\ (~tsconfig /\ entryPoints # <<>> /\ broken = {}) => pc # "failed"
----------------------------------------------------------------------------
(* C30: the removal of the types directory *)

\* the type bundles that are issued and have neither written their file nor rejected
TypesRunning == {t \in DOMAIN typesTasks : t \notin typesDone /\ <<"types", t>> \notin failure}

\* the finally block of main() runs with a types directory: fs.rm is called
RemovalIssued == ~Ended /\ Ended' /\ declarations = "done"

(* C30, as claimed: the removal of the types directory is issued only when no type   *)
(* bundle is running, in runs that succeed and in runs that fail.                    *)
C30_RemovalAfterTypes ==
    [][RemovalIssued => TypesRunning = {}]_vars

(* C30, amended: the types directory leaves the output directory only by the removal *)
(* that main() issues at its end. In a run that reports success the removal is       *)
(* issued after every type bundle has been written and nothing has rejected. In a    *)
(* run where a task has rejected it is issued as soon as the declaration generation  *)
(* has settled, whatever the type bundles are doing, and the process exits with it.  *)
C30_RemovalAtEnd ==
    [][/\ RemovalIssued =>
            \/ pc' = "done" /\ typesDone = DOMAIN typesTasks /\ failure = {}
            \/ pc' = "failed" /\ failure # {}
       /\ (TypesDir \in dist /\ TypesDir \notin dist') => RemovalIssued
       /\ pc' = "done" => TypesRunning = {} /\ TypesDir \notin dist']_vars

\* a failed run has removed the types directory while a type bundle was running
C30_Witness ==
    /\ pc = "failed" /\ declarations = "done" /\ TypesDir \notin dist
    /\ TypesRunning # {}
=============================================================================
